---------------------------- MODULE Spec2Model ----------------------------
(***************************************************************************)
(* Model of the JD Filter server (src/server/index.js, lines 1-315): the   *)
(* tech-stack lexicon store (load at start, GET, PUT, persisted file), the *)
(* job extraction handler (title, company, location, tech stacks) and the  *)
(* pure text functions it is built from.                                   *)
(*                                                                         *)
(* A JavaScript string is a sequence of one-character strings; "absent"    *)
(* (undefined) values are options: <<>> is absent, <<s>> is the string s.  *)
(***************************************************************************)
EXTENDS Integers, Sequences, FiniteSets, TLC

(***************************************************************************)
(* Characters                                                              *)
(***************************************************************************)
UpperSeq ==
  <<"A","B","C","D","E","F","G","H","I","J","K","L","M",
    "N","O","P","Q","R","S","T","U","V","W","X","Y","Z">>

LowerSeq ==
  <<"a","b","c","d","e","f","g","h","i","j","k","l","m",
    "n","o","p","q","r","s","t","u","v","w","x","y","z">>

UpperChars == {UpperSeq[k] : k \in 1..26}

LowerChars == {LowerSeq[k] : k \in 1..26}

DigitChars == {"0","1","2","3","4","5","6","7","8","9"}

\* \w of a JavaScript regular expression (no u flag)
WordChars == UpperChars \cup LowerChars \cup DigitChars \cup {"_"}

\* \s of a regular expression and the characters String.prototype.trim strips
SpaceChars == {" ", "\n", "\t", "\r"}

\* String.prototype.toLowerCase on one character
ToLower(c) ==
  IF c \in UpperChars
    THEN LowerSeq[CHOOSE k \in 1..26 : UpperSeq[k] = c]
    ELSE c

IsWord(t, i) == i >= 1 /\ i <= Len(t) /\ t[i] \in WordChars

(***************************************************************************)
(* Strings                                                                 *)
(***************************************************************************)
Sub(t, a, b) == SubSeq(t, a, b)

\* the sequences ss[a] to ss[b] one after another (halved, to keep the
\* evaluation shallow)
RECURSIVE ConcatRange(_, _, _)
ConcatRange(ss, a, b) ==
  IF a > b THEN <<>>
  ELSE IF a = b THEN ss[a]
  ELSE LET half == (a + b) \div 2
       IN ConcatRange(ss, a, half) \o ConcatRange(ss, half + 1, b)

\* the sequences of ss one after another
Concat(ss) == LET all == ss \o <<>> IN ConcatRange(all, 1, Len(all))

\* Array.prototype.join
RECURSIVE Join(_, _)
Join(ss, sep) ==
  IF ss = <<>> THEN <<>>
  ELSE IF Len(ss) = 1 THEN ss[1]
  ELSE ss[1] \o sep \o Join(Tail(ss), sep)

RECURSIVE TrimLeft(_)
TrimLeft(t) ==
  IF t # <<>> /\ Head(t) \in SpaceChars THEN TrimLeft(Tail(t)) ELSE t

RECURSIVE TrimRight(_)
TrimRight(t) ==
  IF t # <<>> /\ t[Len(t)] \in SpaceChars
    THEN TrimRight(Sub(t, 1, Len(t) - 1))
    ELSE t

\* String.prototype.trim
Trim(t) == TrimRight(TrimLeft(t))

\* t contains s as a substring
Contains(t, s) ==
  \E a \in 1..(Len(t) - Len(s) + 1) : \A k \in 1..Len(s) : t[a + k - 1] = s[k]

\* String.prototype.split on a one-character separator
RECURSIVE SplitAcc(_, _, _)
SplitAcc(t, sep, cur) ==
  IF t = <<>> THEN <<cur>>
  ELSE IF Head(t) = sep THEN <<cur>> \o SplitAcc(Tail(t), sep, <<>>)
  ELSE SplitAcc(Tail(t), sep, Append(cur, Head(t)))

Split(t, sep) == SplitAcc(t, sep, <<>>)

\* Array.from(new Set(xs)): first occurrences, in insertion order
RECURSIVE Dedup(_)
Dedup(xs) ==
  IF xs = <<>> THEN <<>>
  ELSE LET init == Dedup(Sub(xs, 1, Len(xs) - 1))
           last == xs[Len(xs)]
       IN IF \E k \in 1..Len(init) : init[k] = last
            THEN init
            ELSE Append(init, last)

NoDuplicates(xs) == \A a, b \in 1..Len(xs) : xs[a] = xs[b] => a = b

Range(xs) == {xs[k] : k \in 1..Len(xs)}

(***************************************************************************)
(* Regular expressions.  A pattern is a tree of records; RxEnds gives the  *)
(* end positions of its matches starting at position i of t, in the        *)
(* backtracking priority order of the JavaScript matcher (greedy first).   *)
(* ci is the i flag.                                                       *)
(***************************************************************************)
RxLit(c) == [k |-> "lit", c |-> c]

RxSet(cs) == [k |-> "set", cs |-> cs]

RxNotSet(cs) == [k |-> "nset", cs |-> cs]

RxSeq(rs) == [k |-> "seq", rs |-> rs]

RxAlt(rs) == [k |-> "alt", rs |-> rs]

RxOpt(r) == [k |-> "opt", r |-> r]

RxStar(r) == [k |-> "star", r |-> r]

RxPlus(r) == [k |-> "seq", rs |-> <<r, [k |-> "star", r |-> r]>>]

\* . : any character but a line terminator
RxAny == [k |-> "nset", cs |-> {"\n", "\r"}]

RxWordB == [k |-> "wordb"]

RxBol == [k |-> "bol"]

RxEol == [k |-> "eol"]

RxNotBehind(r) == [k |-> "nbehind", r |-> r]

RxNotAhead(r) == [k |-> "nahead", r |-> r]

\* the literal characters of s, one after another
RxWord(s) == [k |-> "seq", rs |-> [j \in 1..Len(s) |-> [k |-> "lit", c |-> s[j]]] \o <<>>]

RECURSIVE RxEnds(_, _, _, _)
RxEnds(r, t, i, ci) ==
  CASE r.k = "lit" ->
         IF i <= Len(t) /\ (IF ci THEN ToLower(t[i]) = ToLower(r.c) ELSE t[i] = r.c)
           THEN <<i + 1>> ELSE <<>>
    [] r.k = "set" ->
         IF i <= Len(t)
            /\ (IF ci THEN \E c \in r.cs : ToLower(c) = ToLower(t[i]) ELSE t[i] \in r.cs)
           THEN <<i + 1>> ELSE <<>>
    [] r.k = "nset" ->
         IF i <= Len(t)
            /\ ~(IF ci THEN \E c \in r.cs : ToLower(c) = ToLower(t[i]) ELSE t[i] \in r.cs)
           THEN <<i + 1>> ELSE <<>>
    [] r.k = "seq" ->
         IF r.rs = <<>> THEN <<i>>
         ELSE LET rest == [k |-> "seq", rs |-> Tail(r.rs)]
                  first == RxEnds(Head(r.rs), t, i, ci)
              IN Concat([n \in 1..Len(first) |-> RxEnds(rest, t, first[n], ci)])
    [] r.k = "alt" ->
         Concat([n \in 1..Len(r.rs) |-> RxEnds(r.rs[n], t, i, ci)])
    [] r.k = "opt" -> RxEnds(r.r, t, i, ci) \o <<i>>
    [] r.k = "star" ->
         IF r.r.k \in {"lit", "set", "nset"}
           \* a run of single characters: the longest run first, then each shorter one
           THEN LET run == {m \in 0..(Len(t) + 1 - i) :
                             \A n \in i..(i + m - 1) : RxEnds(r.r, t, n, ci) # <<>>}
                    longest == CHOOSE m \in run : \A n \in run : n <= m
                IN [n \in 1..(longest + 1) |-> i + longest + 1 - n] \o <<>>
           ELSE LET once == RxEnds(r.r, t, i, ci)
                IN Concat([n \in 1..Len(once) |->
                             IF once[n] > i THEN RxEnds(r, t, once[n], ci) ELSE <<>>])
                   \o <<i>>
    [] r.k = "wordb" ->
         IF IsWord(t, i - 1) # IsWord(t, i) THEN <<i>> ELSE <<>>
    [] r.k = "bol" -> IF i = 1 THEN <<i>> ELSE <<>>
    [] r.k = "eol" -> IF i = Len(t) + 1 THEN <<i>> ELSE <<>>
    [] r.k = "nbehind" ->
         IF \E j \in 1..i : \E e \in Range(RxEnds(r.r, t, j, ci)) : e = i
           THEN <<>> ELSE <<i>>
    [] r.k = "nahead" ->
         IF RxEnds(r.r, t, i, ci) # <<>> THEN <<>> ELSE <<i>>

\* RegExp.prototype.test
RxTest(r, t, ci) == \E i \in 1..(Len(t) + 1) : RxEnds(r, t, i, ci) # <<>>

\* String.prototype.match without the g flag: <<>> for null, else <<match[0]>>
RxMatch(r, t, ci) ==
  LET starts == {a \in 1..(Len(t) + 1) : RxEnds(r, t, a, ci) # <<>>}
      i == CHOOSE a \in starts : \A b \in starts : a <= b
  IN IF starts = {} THEN <<>>
     ELSE <<Sub(t, i, Head(RxEnds(r, t, i, ci)) - 1)>>

(***************************************************************************)
(* JSON values and the JSON text of the persisted store.  A value is a     *)
(* record [t, v]: t is the JavaScript kind, v the string's characters, the *)
(* number's digits, the literal's name or the array's items.               *)
(***************************************************************************)
JStr(s) == [t |-> "string", v |-> s]

JNum(ds) == [t |-> "number", v |-> ds]

JLit(name) == [t |-> "literal", v |-> name]

JArr(items) == [t |-> "array", v |-> items]

JObj == [t |-> "object", v |-> <<>>]

\* JsonQuote without the escapes
JsonQuoteRaw(s) == <<"\"">> \o s \o <<"\"">>

\* JSON.stringify of one string: quotes, and escapes for quote, backslash, controls
JsonQuote(s) ==
  <<"\"">>
  \o Concat([n \in 1..Len(s) |->
       CASE s[n] = "\"" -> <<"\\", "\"">>
         [] s[n] = "\\" -> <<"\\", "\\">>
         [] s[n] = "\n" -> <<"\\", "n">>
         [] s[n] = "\t" -> <<"\\", "t">>
         [] s[n] = "\r" -> <<"\\", "r">>
         [] OTHER -> <<s[n]>>])
  \o <<"\"">>

JsonScalar(x) == IF x.t = "string" THEN JsonQuote(x.v) ELSE x.v

\* JSON.stringify(stacks, null, 2) of an array of scalars
JsonStringify(stacks) ==
  IF stacks = <<>> THEN <<"[", "]">>
  ELSE <<"[", "\n">>
       \o Join([n \in 1..Len(stacks) |-> <<" ", " ">> \o JsonScalar(stacks[n])],
               <<",", "\n">>)
       \o <<"\n", "]">>

JsonFail == [ok |-> FALSE, v |-> JObj, i |-> 0]

JsonWs == {" ", "\n", "\t", "\r"}

RECURSIVE JsonSkipWs(_, _)
JsonSkipWs(s, i) ==
  IF i <= Len(s) /\ s[i] \in JsonWs THEN JsonSkipWs(s, i + 1) ELSE i

\* the characters of a string literal from position i (after the opening quote)
RECURSIVE JsonStringBody(_, _, _)
JsonStringBody(s, i, acc) ==
  IF i > Len(s) THEN JsonFail
  ELSE IF s[i] = "\"" THEN [ok |-> TRUE, v |-> JStr(acc), i |-> i + 1]
  ELSE IF s[i] \in {"\n", "\t", "\r"} THEN JsonFail
  ELSE IF s[i] = "\\" THEN
    IF i + 1 > Len(s) THEN JsonFail
    ELSE CASE s[i + 1] \in {"\"", "\\", "/"} ->
                JsonStringBody(s, i + 2, Append(acc, s[i + 1]))
           [] s[i + 1] = "n" -> JsonStringBody(s, i + 2, Append(acc, "\n"))
           [] s[i + 1] = "t" -> JsonStringBody(s, i + 2, Append(acc, "\t"))
           [] s[i + 1] = "r" -> JsonStringBody(s, i + 2, Append(acc, "\r"))
           [] OTHER -> JsonFail
  ELSE JsonStringBody(s, i + 1, Append(acc, s[i]))

RECURSIVE JsonDigits(_, _)
JsonDigits(s, i) ==
  IF i <= Len(s) /\ s[i] \in DigitChars THEN JsonDigits(s, i + 1) ELSE i

\* an integer: -? (0 | [1-9][0-9]*)
JsonNumber(s, i) ==
  LET a == IF s[i] = "-" THEN i + 1 ELSE i
      e == IF a <= Len(s) /\ s[a] = "0" THEN a + 1 ELSE JsonDigits(s, a)
  IN IF e = a THEN JsonFail ELSE [ok |-> TRUE, v |-> JNum(Sub(s, i, e - 1)), i |-> e]

JsonLiteral(s, i) ==
  LET Is(w) == i + Len(w) - 1 <= Len(s) /\ Sub(s, i, i + Len(w) - 1) = w
      names == {<<"t","r","u","e">>, <<"f","a","l","s","e">>, <<"n","u","l","l">>}
  IN IF \E w \in names : Is(w)
       THEN LET w == CHOOSE w \in names : Is(w)
            IN [ok |-> TRUE, v |-> JLit(w), i |-> i + Len(w)]
       ELSE JsonFail

RECURSIVE JsonValue(_, _)
RECURSIVE JsonItems(_, _, _)
RECURSIVE JsonMembers(_, _)

\* the items of an array from position i (after "[" or ","), acc those read so far
JsonItems(s, i, acc) ==
  LET x == JsonValue(s, JsonSkipWs(s, i))
      j == JsonSkipWs(s, x.i)
  IN IF ~x.ok \/ j > Len(s) THEN JsonFail
     ELSE IF s[j] = "," THEN JsonItems(s, j + 1, Append(acc, x.v))
     ELSE IF s[j] = "]" THEN [ok |-> TRUE, v |-> JArr(Append(acc, x.v)), i |-> j + 1]
     ELSE JsonFail

\* the members of an object from position i (after "{" or ",")
JsonMembers(s, i) ==
  LET a == JsonSkipWs(s, i)
      key == IF a <= Len(s) /\ s[a] = "\"" THEN JsonStringBody(s, a + 1, <<>>) ELSE JsonFail
      c == JsonSkipWs(s, key.i)
      x == IF key.ok /\ c <= Len(s) /\ s[c] = ":"
             THEN JsonValue(s, JsonSkipWs(s, c + 1)) ELSE JsonFail
      j == JsonSkipWs(s, x.i)
  IN IF ~x.ok \/ j > Len(s) THEN JsonFail
     ELSE IF s[j] = "," THEN JsonMembers(s, j + 1)
     ELSE IF s[j] = "}" THEN [ok |-> TRUE, v |-> JObj, i |-> j + 1]
     ELSE JsonFail

JsonValue(s, i) ==
  IF i > Len(s) THEN JsonFail
  ELSE CASE s[i] = "\"" -> JsonStringBody(s, i + 1, <<>>)
         [] s[i] = "[" ->
              LET j == JsonSkipWs(s, i + 1)
              IN IF j <= Len(s) /\ s[j] = "]"
                   THEN [ok |-> TRUE, v |-> JArr(<<>>), i |-> j + 1]
                   ELSE JsonItems(s, i + 1, <<>>)
         [] s[i] = "{" ->
              LET j == JsonSkipWs(s, i + 1)
              IN IF j <= Len(s) /\ s[j] = "}"
                   THEN [ok |-> TRUE, v |-> JObj, i |-> j + 1]
                   ELSE JsonMembers(s, i + 1)
         [] s[i] \in DigitChars \cup {"-"} -> JsonNumber(s, i)
         [] OTHER -> JsonLiteral(s, i)

\* JSON.parse: ok is FALSE where it throws
JsonParse(s) ==
  LET x == JsonValue(s, JsonSkipWs(s, 1))
  IN IF x.ok /\ JsonSkipWs(s, x.i) = Len(s) + 1 THEN x ELSE JsonFail

(***************************************************************************)
(* The parsed page ($ = cheerio.load(html)).  A document is a record of    *)
(*   pageTitle       text of the first <title> ("" when there is none)     *)
(*   ogTitle, ogSiteName, metaDescription, ogDescription, metaKeywords     *)
(*                   the content attribute of the meta tag, an option      *)
(*   articleTags     the content attributes (options) of the article:tag   *)
(*                   meta tags, in document order                          *)
(*   headScripts     the texts of the <script> elements of the head        *)
(*   body            the child nodes of <body>                             *)
(* A node is a text node [tag |-> "#text", text] or an element             *)
(* [tag, company, kids]; company says it carries data-company-name.        *)
(***************************************************************************)
TextNode(s) == [tag |-> "#text", text |-> s]

Elem(tag, kids) == [tag |-> tag, company |-> FALSE, kids |-> kids]

CompanyElem(tag, kids) == [tag |-> tag, company |-> TRUE, kids |-> kids]

\* .text() of one node: the texts of its descendants, in document order
RECURSIVE NodeText(_)
NodeText(n) ==
  IF n.tag = "#text" THEN n.text
  ELSE Concat([k \in 1..Len(n.kids) |-> NodeText(n.kids[k])])

\* the elements under a list of nodes, in document order
RECURSIVE Elements(_)
Elements(nodes) ==
  Concat([k \in 1..Len(nodes) |->
            IF nodes[k].tag = "#text" THEN <<>>
            ELSE <<nodes[k]>> \o Elements(nodes[k].kids)])

\* $(selector) for a set of tag names
SelectTags(doc, tags) ==
  LET Has(e) == e.tag \in tags IN SelectSeq(Elements(doc.body), Has)

\* $('body').text()
BodyText(doc) == Concat([k \in 1..Len(doc.body) |-> NodeText(doc.body[k])])

\* $(selector).first().text(): "" when nothing is selected
FirstText(elems) == IF elems = <<>> THEN <<>> ELSE NodeText(elems[1])

\* $('script').map((_, element) => $(element).text() || '').get().join('\n')
ScriptText(doc) ==
  LET inBody == SelectTags(doc, {"script"})
  IN Join(doc.headScripts \o [k \in 1..Len(inBody) |-> NodeText(inBody[k])], <<"\n">>)

\* [a, b, ...].filter(Boolean) on option strings: absent and "" are dropped
Truthy(opts) ==
  Concat([k \in 1..Len(opts) |->
            IF opts[k] = <<>> \/ opts[k][1] = <<>> THEN <<>> ELSE <<opts[k][1]>>])

(***************************************************************************)
(* Title and company                                                       *)
(***************************************************************************)
\* extractText: node ? node.trim() : ''
extractText(node) ==
  IF node = <<>> \/ node[1] = <<>> THEN <<>> ELSE Trim(node[1])

\* pickFirst: values.find((value) => !!value && value.length > 0)
pickFirst(values) ==
  LET found == Truthy(values) IN IF found = <<>> THEN <<>> ELSE <<found[1]>>

UntitledRole == <<"U","n","t","i","t","l","e","d"," ","r","o","l","e">>

H1Title(doc) == FirstText(SelectTags(doc, {"h1"}))

Title(doc) ==
  LET t == extractText(pickFirst(<< <<H1Title(doc)>>, doc.ogTitle, <<doc.pageTitle>> >>))
  IN IF t = <<>> THEN UntitledRole ELSE t

\* company || undefined: an option
\* the company with the text of the element taken as it is
CompanyUntrimmed(doc) ==
  LET site == extractText(doc.ogSiteName)
      IsCompany(e) == e.company
      attr == FirstText(SelectSeq(Elements(doc.body), IsCompany))
      c == IF site # <<>> THEN site ELSE attr
  IN IF c = <<>> THEN <<>> ELSE <<c>>

Company(doc) ==
  LET site == extractText(doc.ogSiteName)
      IsCompany(e) == e.company
      attr == extractText(<<FirstText(SelectSeq(Elements(doc.body), IsCompany))>>)
      c == IF site # <<>> THEN site ELSE attr
  IN IF c = <<>> THEN <<>> ELSE <<c>>

(***************************************************************************)
(* Location                                                                *)
(***************************************************************************)
RemoteWord == <<"r","e","m","o","t","e">>

\* /\bremote\b/i
PositiveRemoteRx == RxSeq(<<RxWordB, RxWord(RemoteWord), RxWordB>>)

\* the negation pattern without its optional hyphen or space
NegativeRemoteRxNoGap ==
  RxSeq(<<RxWordB,
          RxAlt(<<RxWord(<<"n","o">>), RxWord(<<"n","o","t">>), RxWord(<<"n","o","n">>)>>),
          RxWord(RemoteWord),
          RxWordB>>)

\* /\b(?:no|not|non)[-\s]?remote\b/i
NegativeRemoteRx ==
  RxSeq(<<RxWordB,
          RxAlt(<<RxWord(<<"n","o">>), RxWord(<<"n","o","t">>), RxWord(<<"n","o","n">>)>>),
          RxOpt(RxSet({"-"} \cup SpaceChars)),
          RxWord(RemoteWord),
          RxWordB>>)

\* /on[-\s]?site|onsite|in[-\s]?office|hybrid/i
DescriptorRx ==
  RxAlt(<<RxSeq(<<RxWord(<<"o","n">>), RxOpt(RxSet({"-"} \cup SpaceChars)),
                  RxWord(<<"s","i","t","e">>)>>),
          RxWord(<<"o","n","s","i","t","e">>),
          RxSeq(<<RxWord(<<"i","n">>), RxOpt(RxSet({"-"} \cup SpaceChars)),
                  RxWord(<<"o","f","f","i","c","e">>)>>),
          RxWord(<<"h","y","b","r","i","d">>)>>)

\* [a-zA-Z.\s]
CityChars == UpperChars \cup LowerChars \cup {"."} \cup SpaceChars

\* the city pattern without white space in the name of the city
CityStateRxOneWord ==
  RxSeq(<<RxWordB, RxSet(UpperChars), RxPlus(RxSet(CityChars \ SpaceChars)), RxLit(","),
          RxStar(RxSet(SpaceChars)), RxSet(UpperChars), RxSet(UpperChars), RxWordB>>)

\* /\b[A-Z][a-zA-Z.\s]+,\s*[A-Z]{2}\b/
CityStateRx ==
  RxSeq(<<RxWordB, RxSet(UpperChars), RxPlus(RxSet(CityChars)), RxLit(","),
          RxStar(RxSet(SpaceChars)), RxSet(UpperChars), RxSet(UpperChars), RxWordB>>)

\* /\b[A-Z]{2},\s*[A-Z][a-zA-Z.\s]+\b/
StateCityRx ==
  RxSeq(<<RxWordB, RxSet(UpperChars), RxSet(UpperChars), RxLit(","),
          RxStar(RxSet(SpaceChars)), RxSet(UpperChars), RxPlus(RxSet(CityChars)),
          RxWordB>>)

MinHintLen == 4

MaxHintLen == 100

HintTags == {"p", "span", "li", "div"}

\* the hints of an element without the bounds on the length of its text
ElementHintsAnyLength(e) ==
  LET text == Trim(NodeText(e))
      cityStateMatch == RxMatch(CityStateRx, text, FALSE)
      stateCityMatch == RxMatch(StateCityRx, text, FALSE)
  IN IF text = <<>> THEN <<>>
     ELSE (IF RxTest(DescriptorRx, text, TRUE) THEN <<text>> ELSE <<>>)
          \o (IF \E k \in 1..Len(text) : text[k] = ","
                THEN (IF cityStateMatch # <<>> THEN <<Trim(cityStateMatch[1])>> ELSE <<>>)
                     \o (IF stateCityMatch # <<>> THEN <<Trim(stateCityMatch[1])>> ELSE <<>>)
                ELSE <<>>)

\* the hints one element adds to the set, in the order it adds them
ElementHints(e) ==
  LET text == Trim(NodeText(e))
      cityStateMatch == RxMatch(CityStateRx, text, FALSE)
      stateCityMatch == RxMatch(StateCityRx, text, FALSE)
  IN IF text = <<>> \/ Len(text) < MinHintLen \/ Len(text) > MaxHintLen THEN <<>>
     ELSE (IF RxTest(DescriptorRx, text, TRUE) THEN <<text>> ELSE <<>>)
          \o (IF \E k \in 1..Len(text) : text[k] = ","
                THEN (IF cityStateMatch # <<>> THEN <<Trim(cityStateMatch[1])>> ELSE <<>>)
                     \o (IF stateCityMatch # <<>> THEN <<Trim(stateCityMatch[1])>> ELSE <<>>)
                ELSE <<>>)

extractLocationHints(doc) ==
  LET elems == SelectTags(doc, HintTags)
  IN Dedup(Concat([k \in 1..Len(elems) |-> ElementHints(elems[k])]))

\* [pageText, metaDescription, ogDescription, h1Title, ogTitle, pageTitle,
\*  scriptTextForRemote].filter(Boolean).join('\n')
TextForRemoteScan(doc) ==
  Join(Truthy(<< <<BodyText(doc)>>, doc.metaDescription, doc.ogDescription,
                 <<H1Title(doc)>>, doc.ogTitle, <<doc.pageTitle>>,
                 <<ScriptText(doc)>> >>),
       <<"\n">>)

HasPositiveRemote(doc) == RxTest(PositiveRemoteRx, TextForRemoteScan(doc), TRUE)

HasNegativeRemote(doc) == RxTest(NegativeRemoteRx, TextForRemoteScan(doc), TRUE)

IsRemote(doc) == HasPositiveRemote(doc) /\ ~HasNegativeRemote(doc)

\* the hints variable of the handler: computed on the Not Remote branch only
LocationHints(doc) == IF IsRemote(doc) THEN <<>> ELSE extractLocationHints(doc)

RemoteLabel == <<"R","e","m","o","t","e">>

NotRemoteLabel == <<"N","o","t"," ","R","e","m","o","t","e">>

\* the location string of the payload
Location(doc, hints) ==
  IF IsRemote(doc) THEN RemoteLabel
  ELSE IF hints = <<>> THEN NotRemoteLabel
  ELSE NotRemoteLabel \o <<"\n">> \o Join(hints, <<" ", "/", " ">>)

(***************************************************************************)
(* Tech stacks                                                             *)
(***************************************************************************)
\* the characters escapeRegex puts a backslash before: . * + ? ^ $ { } ( ) | [ ] \
RegexSyntaxChars ==
  {".", "*", "+", "?", "^", "$", "{", "}", "(", ")", "|", "[", "]", "\\"}

\* value.replace(/[.*+?^${}()|[\]\\]/g, '\\$&')
escapeRegex(value) ==
  Concat([n \in 1..Len(value) |->
            IF value[n] \in RegexSyntaxChars THEN <<"\\", value[n]>> ELSE <<value[n]>>])

\* new RegExp(source) for a source made of plain characters, \b and escaped
\* syntax characters: the pattern's atoms, in order
RECURSIVE RxAtoms(_)
RxAtoms(src) ==
  IF src = <<>> THEN <<>>
  ELSE IF src[1] = "\\" /\ Len(src) >= 2
    THEN (IF src[2] = "b" THEN <<RxWordB>> ELSE <<RxLit(src[2])>>)
         \o RxAtoms(Sub(src, 3, Len(src)))
  ELSE <<RxLit(src[1])>> \o RxAtoms(Tail(src))

\* `\\b${escapeRegex(normalized)}\\b`
DefaultPattern(normalized) ==
  RxSeq(RxAtoms(<<"\\", "b">> \o escapeRegex(normalized) \o <<"\\", "b">>))

\* ^...$ around a pattern, for the label tests
RxWhole(r) == RxSeq(<<RxBol, r, RxEol>>)

\* /^React$/i
IsReactLabel(n) == RxTest(RxWhole(RxWord(<<"R","e","a","c","t">>)), n, TRUE)

\* /^Node(?:\\.js)?$/i : in the regex literal \\ is a backslash and . any character
IsNodeLabel(n) ==
  RxTest(RxWhole(RxSeq(<<RxWord(<<"N","o","d","e">>),
                         RxOpt(RxSeq(<<RxLit("\\"), RxAny, RxWord(<<"j","s">>)>>))>>)),
         n, TRUE)

\* /^JavaScript$/i
IsJavaScriptLabel(n) ==
  RxTest(RxWhole(RxWord(<<"J","a","v","a","S","c","r","i","p","t">>)), n, TRUE)

\* /^TypeScript$/i
IsTypeScriptLabel(n) ==
  RxTest(RxWhole(RxWord(<<"T","y","p","e","S","c","r","i","p","t">>)), n, TRUE)

\* /^AWS$/i
IsAwsLabel(n) == RxTest(RxWhole(RxWord(<<"A","W","S">>)), n, TRUE)

\* the React pattern without the word boundary at its end
ReactPatternPrefix ==
  RxSeq(<<RxWordB, RxWord(<<"R","e","a","c","t">>),
          RxOpt(RxAlt(<<RxWord(<<"J","S">>), RxWord(<<".","j","s">>)>>))>>)

\* '\\bReact(?:JS|\\.js)?\\b'
ReactPattern ==
  RxSeq(<<RxWordB, RxWord(<<"R","e","a","c","t">>),
          RxOpt(RxAlt(<<RxWord(<<"J","S">>), RxWord(<<".","j","s">>)>>)),
          RxWordB>>)

\* '\\bNode(?:\\.js|JS)?\\b'
NodePattern ==
  RxSeq(<<RxWordB, RxWord(<<"N","o","d","e">>),
          RxOpt(RxAlt(<<RxWord(<<".","j","s">>), RxWord(<<"J","S">>)>>)),
          RxWordB>>)

\* the JavaScript pattern without its first lookbehind
JavaScriptPatternNoLookbehind ==
  RxAlt(<<
    RxSeq(<<RxWordB, RxWord(<<"J","a","v","a","S","c","r","i","p","t">>), RxWordB>>),
    RxSeq(<<RxNotBehind(RxSet(WordChars \cup {".", "/", "'", "\"", "-"})),
            RxWord(<<"J","S">>),
            RxNotAhead(RxSet(WordChars))>>)>>)

\* '(?<!(text|application)\\/|enable\\s)\\bJavaScript\\b|(?<![\\w./\'"-])JS(?![\\w])'
JavaScriptPattern ==
  RxAlt(<<
    RxSeq(<<RxNotBehind(RxAlt(<<
              RxSeq(<<RxAlt(<<RxWord(<<"t","e","x","t">>),
                              RxWord(<<"a","p","p","l","i","c","a","t","i","o","n">>)>>),
                      RxLit("/")>>),
              RxSeq(<<RxWord(<<"e","n","a","b","l","e">>), RxSet(SpaceChars)>>)>>)),
            RxWordB, RxWord(<<"J","a","v","a","S","c","r","i","p","t">>), RxWordB>>),
    RxSeq(<<RxNotBehind(RxSet(WordChars \cup {".", "/", "'", "\"", "-"})),
            RxWord(<<"J","S">>),
            RxNotAhead(RxSet(WordChars))>>)>>)

\* '\\bTypeScript\\b|(?<!\\w)TS(?!\\w)'
TypeScriptPattern ==
  RxAlt(<<
    RxSeq(<<RxWordB, RxWord(<<"T","y","p","e","S","c","r","i","p","t">>), RxWordB>>),
    RxSeq(<<RxNotBehind(RxSet(WordChars)), RxWord(<<"T","S">>),
            RxNotAhead(RxSet(WordChars))>>)>>)

\* '\\bAWS\\b|\\bAmazon Web Services\\b'
AwsPattern ==
  RxAlt(<<
    RxSeq(<<RxWordB, RxWord(<<"A","W","S">>), RxWordB>>),
    RxSeq(<<RxWordB,
            RxWord(<<"A","m","a","z","o","n"," ","W","e","b"," ",
                     "S","e","r","v","i","c","e","s">>),
            RxWordB>>)>>)

\* patternSource for a trimmed label
PatternFor(normalized) ==
  IF IsReactLabel(normalized) THEN ReactPattern
  ELSE IF IsNodeLabel(normalized) THEN NodePattern
  ELSE IF IsJavaScriptLabel(normalized) THEN JavaScriptPattern
  ELSE IF IsTypeScriptLabel(normalized) THEN TypeScriptPattern
  ELSE IF IsAwsLabel(normalized) THEN AwsPattern
  ELSE DefaultPattern(normalized)

\* the body of techStacks.forEach: whether the label is added to the set
LabelMatches(label, rawText) ==
  /\ label.t = "string"
  /\ label.v # <<>>
  /\ Trim(label.v) # <<>>
  /\ RxTest(PatternFor(Trim(label.v)), rawText, TRUE)

\* the keywords meta tag: split(','), trim, filter(Boolean)
MetaKeywordEntries(doc) ==
  IF doc.metaKeywords = <<>> \/ doc.metaKeywords[1] = <<>> THEN <<>>
  ELSE LET parts == Split(doc.metaKeywords[1], ",")
       IN Concat([n \in 1..Len(parts) |->
                    IF Trim(parts[n]) = <<>> THEN <<>> ELSE <<Trim(parts[n])>>])

\* the article:tag meta tags: if (tag) keywords.add(tag.trim())
ArticleTagEntries(doc) ==
  Concat([n \in 1..Len(doc.articleTags) |->
            IF doc.articleTags[n] = <<>> \/ doc.articleTags[n][1] = <<>> THEN <<>>
            ELSE <<Trim(doc.articleTags[n][1])>>])

\* `${pageText || $('body').text()}\n${scriptText}`
RawText(doc, pageText) ==
  (IF pageText # <<>> THEN pageText ELSE BodyText(doc)) \o <<"\n">> \o ScriptText(doc)

\* the scan walking the lexicon from its last label to its first
ScanEntriesReversed(doc, pageText, lexicon) ==
  Concat([n \in 1..Len(lexicon) |->
            IF LabelMatches(lexicon[Len(lexicon) + 1 - n], RawText(doc, pageText))
              THEN <<lexicon[Len(lexicon) + 1 - n].v>> ELSE <<>>])

\* the labels the lexicon scan adds, in lexicon order
ScanEntries(doc, pageText, lexicon) ==
  Concat([n \in 1..Len(lexicon) |->
            IF LabelMatches(lexicon[n], RawText(doc, pageText))
              THEN <<lexicon[n].v>> ELSE <<>>])

\* the keywords collected in an array rather than a Set
collectKeywordsNoSet(doc, pageText, lexicon) ==
  MetaKeywordEntries(doc) \o ArticleTagEntries(doc) \o ScanEntries(doc, pageText, lexicon)

\* collectKeywords($, pageText) reading the lexicon techStacks
collectKeywords(doc, pageText, lexicon) ==
  Dedup(MetaKeywordEntries(doc) \o ArticleTagEntries(doc)
        \o ScanEntries(doc, pageText, lexicon))

\* [pageText, metaDescription, ogDescription].filter(Boolean).join('\n')
TextForStacksScan(doc) ==
  Join(Truthy(<< <<BodyText(doc)>>, doc.metaDescription, doc.ogDescription >>), <<"\n">>)

NotProvided == <<"N","o","t"," ","p","r","o","v","i","d","e","d">>

(***************************************************************************)
(* The lexicon store                                                       *)
(***************************************************************************)
DEFAULT_TECH_STACKS ==
  <<JStr(<<"R","e","a","c","t">>),
    JStr(<<"N","e","x","t",".","j","s">>),
    JStr(<<"T","y","p","e","S","c","r","i","p","t">>),
    JStr(<<"J","a","v","a","S","c","r","i","p","t">>),
    JStr(<<"N","o","d","e",".","j","s">>),
    JStr(<<"A","n","g","u","l","a","r">>),
    JStr(<<"V","u","e",".","j","s">>),
    JStr(<<"J","a","v","a">>),
    JStr(<<"S","p","r","i","n","g"," ","B","o","o","t">>),
    JStr(<<"P","y","t","h","o","n">>),
    JStr(<<"D","j","a","n","g","o">>),
    JStr(<<"F","l","a","s","k">>)>>

\* readTechStacksFromFile: file is an option, <<>> when reading it throws
readTechStacksFromFile(file) ==
  IF file = <<>> THEN DEFAULT_TECH_STACKS
  ELSE LET parsed == JsonParse(file[1])
       IN IF parsed.ok /\ parsed.v.t = "array" THEN parsed.v.v
          ELSE DEFAULT_TECH_STACKS

\* writeTechStacksToFile: the file after the call.  written: writeFileSync returned;
\* otherwise it threw (the error is logged), either before it opened the file or
\* after it had truncated it.
writeTechStacksToFile(file, stacks, outcome) ==
  CASE outcome = "written" -> <<JsonStringify(stacks)>>
    [] outcome = "failedUnopened" -> file
    [] outcome = "failedTruncated" -> << <<>> >>

WriteOutcomes == {"written", "failedUnopened", "failedTruncated"}

\* Cleaned without the trim
CleanedUntrimmed(incoming) ==
  Dedup(Concat([n \in 1..Len(incoming) |->
                  IF incoming[n].t = "string" /\ incoming[n].v # <<>>
                    THEN <<incoming[n].v>> ELSE <<>>]))

\* incoming.map((entry) => (typeof entry === 'string' ? entry.trim() : ''))
\*         .filter(Boolean), through Array.from(new Set(...))
Cleaned(incoming) ==
  Dedup(Concat([n \in 1..Len(incoming) |->
                  IF incoming[n].t = "string" /\ Trim(incoming[n].v) # <<>>
                    THEN <<Trim(incoming[n].v)>> ELSE <<>>]))

\* the array of strings assigned to techStacks
AsLexicon(cleaned) == [n \in 1..Len(cleaned) |-> JStr(cleaned[n])] \o <<>>

(***************************************************************************)
(* Requests                                                                *)
(***************************************************************************)
\* normalizeUrl: an option.  A raw url is absent (<<>>) or <<[valid, protocol,
\* hostname]>>, valid telling whether new URL(rawUrl.trim()) parses
normalizeUrl(rawUrl) ==
  IF rawUrl = <<>> THEN <<>>
  ELSE IF ~rawUrl[1].valid THEN <<>>
  ELSE IF rawUrl[1].protocol \notin {"http:", "https:"} THEN <<>>
  ELSE rawUrl

\* new URL(targetUrl).hostname.replace(/^www\./, '')
JobPlatform(url) ==
  LET h == url.hostname
  IN IF Len(h) >= 4 /\ Sub(h, 1, 4) = <<"w","w","w",".">> THEN Sub(h, 5, Len(h)) ELSE h

\* techStacks.length > 0 ? techStacks : ['Not provided']
\* the payload field without the substitution for an empty list
PayloadTechStacksRaw(found) == found

\* techStacks.length > 0 ? techStacks : ['Not provided']
PayloadTechStacks(found) == IF Len(found) > 0 THEN found ELSE <<NotProvided>>

\* the payload of a successful job request
Payload(doc, url, lexicon, hints) ==
  [title |-> Title(doc),
   location |-> Location(doc, hints),
   techStacks |-> PayloadTechStacks(collectKeywords(doc, TextForStacksScan(doc), lexicon)),
   jobPlatform |-> JobPlatform(url),
   company |-> Company(doc),
   url |-> url]

(***************************************************************************)
(* Inputs of the server model                                              *)
(***************************************************************************)
MaxJobs == 1

\* the requests one slot takes one after the other
MaxRuns == 2

Jobs == 1..MaxJobs

React == <<"R","e","a","c","t">>

Java == <<"J","a","v","a">>

Go == <<"G","o">>

\* contents of tech_stacks.json found at start: none, malformed, not an array,
\* an empty array, an array that was edited by hand, an array the server wrote
InitialFiles ==
  { <<>>,
    << <<"[">> >>,
    << <<"{", "}">> >>,
    << <<"[", "]">> >>,
    << <<"[", "\"", " ">> \o Java \o <<" ", "\"", ",", "\"">> \o Java
       \o <<"\"", ",", "1", ",", "\"", "\"", "]">> >>,
    << JsonStringify(<<JStr(React), JStr(Java)>>) >> }

\* req.body?.techStacks: isArray is Array.isArray of it
PutBodies ==
  { [isArray |-> FALSE, items |-> <<>>],
    [isArray |-> TRUE, items |-> <<>>],
    [isArray |-> TRUE, items |-> <<JStr(<<>>), JStr(<<" ">>), JNum(<<"5">>)>>],
    [isArray |-> TRUE, items |-> <<JStr(Go), JStr(<<"C", "\\", "\"", "+">>)>>],
    [isArray |-> TRUE, items |-> <<JStr(<<" ">> \o Java \o <<" ">>), JStr(Java), JStr(React)>>],
    [isArray |-> TRUE, items |-> <<JStr(React), JNum(<<"5">>), JStr(<<>>)>>] }

RawUrls ==
  { <<>>,
    <<[valid |-> FALSE, protocol |-> "", hostname |-> <<>>]>>,
    <<[valid |-> TRUE, protocol |-> "ftp:", hostname |-> <<"x",".","i","o">>]>>,
    <<[valid |-> TRUE, protocol |-> "https:", hostname |-> <<"w","w","w",".","x",".","i","o">>]>> }

BaseDoc ==
  [pageTitle |-> <<>>, ogTitle |-> <<>>, ogSiteName |-> <<>>,
   metaDescription |-> <<>>, ogDescription |-> <<>>, metaKeywords |-> <<>>,
   articleTags |-> <<>>, headScripts |-> <<>>, body |-> <<>>]

\* <h1>Dev</h1><p>Remote React role</p>
DocRemoteReact ==
  [BaseDoc EXCEPT
     !.body = <<Elem("h1", <<TextNode(<<"D","e","v">>)>>),
                Elem("p", <<TextNode(<<"R","e","m","o","t","e"," ">> \o React
                                       \o <<" ","r","o","l","e">>)>>)>>]

\* <meta name="keywords" content="Go"><div><span>Austin, TX</span> Java</div>
DocAustinJava ==
  [BaseDoc EXCEPT
     !.metaKeywords = <<Go>>,
     !.body = <<Elem("div", <<Elem("span", <<TextNode(<<"A","u","s","t","i","n",","," ","T","X">>)>>),
                              TextNode(<<" ">> \o Java)>>)>>]

Docs == {DocRemoteReact, DocAustinJava}

(***************************************************************************)
(* The server                                                              *)
(*   techStacks  the in-memory lexicon (let techStacks)                    *)
(*   dbFile      tech_stacks.json: an option holding its characters        *)
(*   job         the GET /api/job requests, each at its await point        *)
(*   lastGet     the body of the last GET /api/tech-stacks response        *)
(*   lastPut     the last PUT /api/tech-stacks request and its response    *)
(*   complete    the lexicons that were installed as a whole: those loaded *)
(*               at a start and the cleaned payloads of accepted replaces  *)
(***************************************************************************)
VARIABLES techStacks, dbFile, job, lastGet, lastPut, complete, client

vars == <<techStacks, dbFile, job, lastGet, lastPut, complete, client>>

\* run counts the requests the slot has taken; before is what the request
\* before this one read and answered, when it answered 200; asked is the
\* lexicon in memory when the request started to await its page
IdleJob ==
  [pc |-> "idle", url |-> <<>>, status |-> 0, doc |-> <<>>, payload |-> <<>>,
   hints |-> <<>>, lexicon |-> <<>>, run |-> 1, before |-> <<>>, asked |-> <<>>]

\* live: the process that answered the request is still the one running
NoPut ==
  [status |-> 0, body |-> [isArray |-> FALSE, items |-> <<>>], outcome |-> "",
   live |-> FALSE]

\* the state of the App component after its first render.  linkInput is the
\* text of the textarea as its lines, each a raw url; batch holds the local
\* variables of the latest call of handleFetchLinks once it has passed its
\* guard: links is the fetchableLinks it iterates, answers the outcome of each
\* fetch so far, requested the links fetch was called on.  failed holds the
\* links whose fetch failed since the last edit of the textarea
NewClient ==
  [jobs |-> <<>>, status |-> "idle", error |-> <<>>, linkInput |-> <<>>,
   skippedLinks |-> <<>>, batch |-> <<>>, failed |-> {}]

\* let techStacks = readTechStacksFromFile() at process start
Start(file) ==
  /\ client = NewClient
  /\ dbFile = file
  /\ techStacks = readTechStacksFromFile(file)
  /\ job = [j \in Jobs |-> IdleJob]
  /\ lastGet = <<>>
  /\ lastPut = NoPut
  /\ complete = {readTechStacksFromFile(file)}

\* the store as the server of Spec finds it: no file yet, or one it wrote
ServerFiles == {<<>>, << JsonStringify(<<JStr(React), JStr(Java)>>) >>}

\* the replace requests of Spec: one rejected, two accepted
ServerPutBodies ==
  { [isArray |-> TRUE, items |-> <<JStr(<<" ">>), JNum(<<"5">>)>>],
    [isArray |-> TRUE, items |-> <<JStr(Go)>>],
    [isArray |-> TRUE, items |-> <<JStr(<<" ">> \o Java), JStr(Java), JStr(React)>>] }

Init == \E file \in ServerFiles : Start(file)

\* the process is stopped and started again: requests in flight are lost
Restart ==
  /\ techStacks' = readTechStacksFromFile(dbFile)
  /\ job' = [j \in Jobs |-> IdleJob]
  /\ lastGet' = <<>>
  /\ complete' = complete \cup {readTechStacksFromFile(dbFile)}
  /\ lastPut' = [lastPut EXCEPT !.live = FALSE]
  /\ UNCHANGED <<dbFile, client>>

\* app.get('/api/tech-stacks')
GetTechStacks ==
  /\ lastGet' = <<techStacks>>
  /\ UNCHANGED <<techStacks, dbFile, job, lastPut, complete, client>>

\* a replace that adds to the lexicon in place
ReplacedInPlace(old, cleaned) == old \o AsLexicon(cleaned)

\* techStacks = cleaned: the lexicon a replace leaves in memory
Replaced(old, cleaned) == AsLexicon(cleaned)

\* app.put('/api/tech-stacks')
PutTechStacks(body, outcome) ==
  LET cleaned == IF body.isArray THEN Cleaned(body.items) ELSE <<>>
  IN IF ~body.isArray \/ Len(cleaned) = 0
       THEN /\ lastPut' = [status |-> 400, body |-> body, outcome |-> "", live |-> TRUE]
            /\ UNCHANGED <<techStacks, dbFile, job, lastGet, complete, client>>
       ELSE /\ techStacks' = Replaced(techStacks, cleaned)
            /\ dbFile' = writeTechStacksToFile(dbFile, techStacks', outcome)
            /\ lastPut' = [status |-> 200, body |-> body, outcome |-> outcome, live |-> TRUE]
            /\ lastGet' = <<>>
            /\ complete' = complete \cup {AsLexicon(cleaned)}
            /\ UNCHANGED <<job, client>>

\* app.get('/api/job') up to await fetch(targetUrl)
JobRequest(j, rawUrl) ==
  /\ job[j].pc = "idle"
  /\ job' = [job EXCEPT ![j] =
       IF normalizeUrl(rawUrl) = <<>>
         THEN [IdleJob EXCEPT !.pc = "done", !.status = 400]
         ELSE [IdleJob EXCEPT !.pc = "fetching", !.url = normalizeUrl(rawUrl),
                              !.asked = <<techStacks>>]]
  /\ UNCHANGED <<techStacks, dbFile, lastGet, lastPut, complete, client>>

\* fetch resolves with response.ok: the handler awaits response.text()
JobFetched(j) ==
  /\ job[j].pc = "fetching"
  /\ job' = [job EXCEPT ![j].pc = "reading"]
  /\ UNCHANGED <<techStacks, dbFile, lastGet, lastPut, complete, client>>

\* a catch block that puts the built-in list back in memory
JobFailsResetting(j) ==
  /\ job[j].pc \in {"fetching", "reading"}
  /\ job' = [job EXCEPT ![j].pc = "done", ![j].status = 500]
  /\ techStacks' = readTechStacksFromFile(<<>>)
  /\ UNCHANGED <<dbFile, lastGet, lastPut, complete, client>>

\* fetch rejects, the response is not ok, or response.text() rejects: the catch block
JobFails(j) ==
  /\ job[j].pc \in {"fetching", "reading"}
  /\ job' = [job EXCEPT ![j].pc = "done", ![j].status = 500]
  /\ UNCHANGED <<techStacks, dbFile, lastGet, lastPut, complete, client>>

\* the handler with patterns that are kept between requests and remember
\* where they matched: after a first answer the scan finds nothing
JobRespondsStickyPatterns(j, doc) ==
  /\ job[j].pc = "reading"
  /\ LET hints == LocationHints(doc)
         scanned == IF job[j].before = <<>> THEN techStacks ELSE <<>>
     IN job' = [job EXCEPT ![j] =
          [pc |-> "done", url |-> job[j].url, status |-> 200, doc |-> <<doc>>,
           payload |-> <<Payload(doc, job[j].url[1], scanned, hints)>>,
           hints |-> hints,
           lexicon |-> <<techStacks>>,
           run |-> job[j].run, before |-> job[j].before, asked |-> job[j].asked]]
  /\ UNCHANGED <<techStacks, dbFile, lastGet, lastPut, complete, client>>

\* the handler scanning with the lexicon it found before it awaited the page
JobRespondsAskedLexicon(j, doc) ==
  /\ job[j].pc = "reading"
  /\ LET hints == LocationHints(doc)
     IN job' = [job EXCEPT ![j] =
          [pc |-> "done", url |-> job[j].url, status |-> 200, doc |-> <<doc>>,
           payload |-> <<Payload(doc, job[j].url[1], job[j].asked[1], hints)>>,
           hints |-> hints,
           lexicon |-> <<techStacks>>,
           run |-> job[j].run, before |-> job[j].before, asked |-> job[j].asked]]
  /\ UNCHANGED <<techStacks, dbFile, lastGet, lastPut, complete, client>>

\* the html arrives: the rest of the handler runs to res.json(payload)
JobResponds(j, doc) ==
  /\ job[j].pc = "reading"
  /\ LET hints == LocationHints(doc)
     IN job' = [job EXCEPT ![j] =
          [pc |-> "done", url |-> job[j].url, status |-> 200, doc |-> <<doc>>,
           payload |-> <<Payload(doc, job[j].url[1], techStacks, hints)>>,
           hints |-> hints,
           lexicon |-> <<techStacks>>,
           run |-> job[j].run, before |-> job[j].before, asked |-> job[j].asked]]
  /\ UNCHANGED <<techStacks, dbFile, lastGet, lastPut, complete, client>>

\* app.get('/api/job') called once more after a request that was answered 200
JobRequestAgain(j, rawUrl) ==
  /\ job[j].pc = "done" /\ job[j].status = 200
  /\ job[j].run < MaxRuns
  /\ LET answered == [doc |-> job[j].doc[1], lexicon |-> job[j].lexicon[1],
                      techStacks |-> job[j].payload[1].techStacks]
     IN job' = [job EXCEPT ![j] =
          IF normalizeUrl(rawUrl) = <<>>
            THEN [IdleJob EXCEPT !.pc = "done", !.status = 400,
                                 !.run = job[j].run + 1, !.before = <<answered>>]
            ELSE [IdleJob EXCEPT !.pc = "fetching", !.url = normalizeUrl(rawUrl),
                                 !.run = job[j].run + 1, !.before = <<answered>>,
                                 !.asked = <<techStacks>>]]
  /\ UNCHANGED <<techStacks, dbFile, lastGet, lastPut, complete, client>>

Next ==
  \/ Restart
  \/ GetTechStacks
  \/ \E body \in ServerPutBodies : PutTechStacks(body, "written")
  \/ \E j \in Jobs, rawUrl \in RawUrls : JobRequest(j, rawUrl)
  \/ \E j \in Jobs : JobFetched(j)
  \/ \E j \in Jobs : JobFails(j)
  \/ \E j \in Jobs, doc \in Docs : JobResponds(j, doc)

\* the server: the lexicon endpoints and the job requests, interleaved at the
\* handlers' await points
Spec == Init /\ [][Next]_vars

InitStore == \E file \in InitialFiles : Start(file)

NextStore ==
  \/ Restart
  \/ GetTechStacks
  \/ \E body \in PutBodies, outcome \in WriteOutcomes : PutTechStacks(body, outcome)

\* the lexicon store alone, over every kind of store file and replace payload
SpecStore == InitStore /\ [][NextStore]_vars

(***************************************************************************)
(* The client: the textarea of links and the batch fetch of App.jsx        *)
(***************************************************************************)
\* the lines a textarea of MaxLinks lines is typed from: a link that is no
\* http(s) url, and two job links
LinkA == <<[valid |-> TRUE, protocol |-> "https:", hostname |-> <<"a",".","i","o">>]>>

LinkB == <<[valid |-> TRUE, protocol |-> "http:", hostname |-> <<"b",".","i","o">>]>>

ClientLines ==
  { <<[valid |-> TRUE, protocol |-> "ftp:", hostname |-> <<"x",".","i","o">>]>>,
    LinkA, LinkB }

MaxLinks == 2

LinkInputs == UNION { [1..n -> ClientLines] : n \in 0..MaxLinks }

\* isValidHttpUrl(rawLink)
isValidHttpUrl(rawLink) ==
  IF rawLink = <<>> THEN FALSE
  ELSE IF ~rawLink[1].valid THEN FALSE
  ELSE rawLink[1].protocol \in {"http:", "https:"}

\* linkInput.split('\n').map(trim).filter(Boolean), then the valid ones
validLinks(linkInput) ==
  LET IsLine(line) == line # <<>>
  IN SelectSeq(SelectSeq(linkInput, IsLine), isValidHttpUrl)

\* the links of a list of jobs or of skipped entries
SourceLinks(entries) == {entries[n].sourceLink : n \in 1..Len(entries)}

\* validLinks.filter((link) => !blockedLinkSet.has(link))
fetchableLinks(linkInput, skippedLinks) ==
  LET IsFree(link) == link \notin SourceLinks(skippedLinks)
  IN SelectSeq(validLinks(linkInput), IsFree)

\* the Map of setSkippedLinks: the entries of prev in their order, then the
\* rejected links that prev does not hold, each once
MergeSkipped(prev, rejectedLinks) ==
  IF rejectedLinks = <<>> THEN prev
  ELSE LET IsNew(entry) == entry.sourceLink \notin SourceLinks(prev)
       IN prev \o Dedup(SelectSeq(rejectedLinks, IsNew))

\* onChange of the textarea, the render and the effect on [linkInput]
EditLinks(value) ==
  /\ value # client.linkInput
  /\ client' = [client EXCEPT !.linkInput = value, !.skippedLinks = <<>>,
                              !.failed = {}]
  /\ UNCHANGED <<techStacks, dbFile, job, lastGet, lastPut, complete>>

\* a click handler that starts a batch whatever the status is
handleFetchLinksAnyStatus ==
  LET links == fetchableLinks(client.linkInput, client.skippedLinks)
  IN /\ IF Len(links) = 0
          THEN UNCHANGED client
          ELSE client' = [client EXCEPT
                 !.status = "loading", !.error = <<>>,
                 !.batch = <<[links |-> links, answers |-> <<>>,
                              successfulJobs |-> <<>>, rejectedLinks |-> <<>>,
                              requested |-> <<links[1]>>]>>]
     /\ UNCHANGED <<techStacks, dbFile, job, lastGet, lastPut, complete>>

\* handleFetchLinks up to the first await fetch(...)
handleFetchLinks ==
  LET links == fetchableLinks(client.linkInput, client.skippedLinks)
  IN /\ IF Len(links) = 0 \/ client.status = "loading"
          THEN UNCHANGED client
          ELSE client' = [client EXCEPT
                 !.status = "loading", !.error = <<>>,
                 !.batch = <<[links |-> links, answers |-> <<>>,
                              successfulJobs |-> <<>>, rejectedLinks |-> <<>>,
                              requested |-> <<links[1]>>]>>]
     /\ UNCHANGED <<techStacks, dbFile, job, lastGet, lastPut, complete>>

\* the fetch of the current link settles: with a response that is ok and
\* parses (answer "ok"), or not ("failed"); the loop goes on to the next
\* fetch, or the batch ends with setJobs, setSkippedLinks and setStatus
FetchSettles(answer) ==
  /\ client.status = "loading"
  /\ LET b == client.batch[1]
         link == b.links[Len(b.answers) + 1]
         successfulJobs == IF answer = "ok"
                             THEN Append(b.successfulJobs, [sourceLink |-> link])
                             ELSE b.successfulJobs
         rejectedLinks == IF answer = "ok"
                            THEN b.rejectedLinks
                            ELSE Append(b.rejectedLinks,
                                        [sourceLink |-> link, reason |-> "failed"])
         failed == IF answer = "ok" THEN client.failed ELSE client.failed \cup {link}
         after == [b EXCEPT !.answers = Append(b.answers, answer),
                            !.successfulJobs = successfulJobs,
                            !.rejectedLinks = rejectedLinks]
     IN IF Len(after.answers) < Len(b.links)
          THEN client' = [client EXCEPT
                 !.failed = failed,
                 !.batch = <<[after EXCEPT !.requested =
                                Append(b.requested, b.links[Len(after.answers) + 1])]>>]
          ELSE client' = [client EXCEPT
                 !.failed = failed,
                 !.batch = <<after>>,
                 !.jobs = successfulJobs,
                 !.skippedLinks = MergeSkipped(client.skippedLinks, rejectedLinks),
                 !.status = "loaded"]
  /\ UNCHANGED <<techStacks, dbFile, job, lastGet, lastPut, complete>>

\* the page is opened on a server that has just started without a store file
InitClient == Start(<<>>)

NextClient ==
  \/ \E value \in LinkInputs : EditLinks(value)
  \/ handleFetchLinks
  \/ \E answer \in {"ok", "failed"} : FetchSettles(answer)

\* the client alone: edits of the textarea, clicks on the fetch button and
\* the answers to its requests, interleaved at the awaits of the batch
SpecClient == InitClient /\ [][NextClient]_vars

(***************************************************************************)
(* One job request over a set of pages: the extraction functions as the    *)
(* handler applies them.  The request is job 1, its url a valid one.       *)
(***************************************************************************)
JobUrl == <<[valid |-> TRUE, protocol |-> "https:", hostname |-> <<"x",".","i","o">>]>>

\* the store file of the extraction specifications: ["React", "Java"]
ExtractFile == << JsonStringify(<<JStr(React), JStr(Java)>>) >>

Dev == <<"D","e","v">>

Blank == <<" ", "\n">>

\* pages for the title and the company: the <h1> elements, og:title, <title>,
\* og:site_name and the [data-company-name] element, each absent, blank or filled
TitleBodies ==
  { <<>>,
    <<Elem("h1", <<>>)>>,
    <<Elem("h1", <<TextNode(Blank)>>)>>,
    <<Elem("h1", <<TextNode(<<" ">> \o Dev \o <<"\n">>)>>)>>,
    <<Elem("h1", <<TextNode(<<" ">>)>>), Elem("h1", <<TextNode(Dev)>>)>> }

CompanyBodies ==
  { <<>>,
    <<CompanyElem("span", <<TextNode(<<" ">>)>>)>>,
    <<CompanyElem("span", <<TextNode(<<"C","o"," ">>)>>)>>,
    <<CompanyElem("div", <<TextNode(<<"\n">>)>>), CompanyElem("span", <<TextNode(<<"C","o">>)>>)>> }

TitleDocs ==
  { [BaseDoc EXCEPT !.body = h1 \o co, !.ogTitle = og, !.pageTitle = pt, !.ogSiteName = site] :
      h1 \in TitleBodies, co \in CompanyBodies,
      og \in {<<>>, << <<>> >>, << <<" ">> >>, << <<"O","g"," ">> >>},
      pt \in {<<>>, <<"\n">>, <<"T","t">>},
      site \in {<<>>, << <<" ">> >>, << <<" ","A","c","m","e">> >>} }

InitExtract == Start(ExtractFile)

NextTitle ==
  \/ JobRequest(1, JobUrl)
  \/ JobFetched(1)
  \/ \E doc \in TitleDocs : JobResponds(1, doc)

\* one job request over the title and company pages
SpecTitle == InitExtract /\ [][NextTitle]_vars

\* lexicons as loaded from the store: clean, with a repeated label, with an
\* untrimmed label and entries that are no labels, and the empty one
KeywordFiles ==
  { << JsonStringify(<<JStr(React), JStr(Java)>>) >>,
    << JsonStringify(<<JStr(Java), JStr(React), JStr(Java)>>) >>,
    << JsonStringify(<<JStr(<<" ">> \o Java \o <<" ">>), JNum(<<"1">>), JStr(<<>>),
                       JStr(Go), JStr(React)>>) >>,
    << JsonStringify(<<>>) >> }

\* pages for the tech stacks: body text, keywords meta tag, article:tag meta tags
KeywordDocs ==
  { [BaseDoc EXCEPT !.body = <<Elem("p", <<TextNode(text)>>)>>,
                    !.metaKeywords = kw, !.articleTags = tags] :
      text \in { <<>>,
                 <<"j","a","v","a">>,
                 React \o <<" ","a","n","d"," ">> \o Java \o <<",", " ">> \o Go,
                 Java \o <<"S","c","r","i","p","t">> },
      kw \in { <<>>,
               << Go \o <<",", " ">> \o Java >>,
               << React \o <<",", ",", " ">> >> },
      tags \in { <<>>,
                 << <<Java>>, <<>> >>,
                 << << <<" ">> >>, << <<"Q","A">> >> >> } }

InitKeywords == \E file \in KeywordFiles : Start(file)

NextKeywords ==
  \/ JobRequest(1, JobUrl)
  \/ JobFetched(1)
  \/ \E doc \in KeywordDocs : JobResponds(1, doc)

\* one job request over the tech-stack pages, for each lexicon
SpecKeywords == InitKeywords /\ [][NextKeywords]_vars

\* the words the texts for the remote scan are put together from
RemoteFragments ==
  { <<"R","e","m","o","t","e">>, <<"N","o">>, <<"n","o","n">>, <<"n","o","t">>,
    <<"-">>, <<" ">>, <<"x">> }

MaxWords == 3

RemoteTexts ==
  UNION { {Concat(ws) : ws \in [1..n -> RemoteFragments]} : n \in 0..MaxWords }

NonRemoteRole ==
  <<"T","h","i","s"," ","i","s"," ","a"," ","n","o","n","-","r","e","m","o","t","e"," ","r","o","l","e">>

\* the sources the handler joins for the remote scan, each holding the text alone
InSource(source, text) ==
  CASE source = "body" -> [BaseDoc EXCEPT !.body = <<Elem("p", <<TextNode(text)>>)>>]
    [] source = "metaDescription" -> [BaseDoc EXCEPT !.metaDescription = <<text>>]
    [] source = "ogDescription" -> [BaseDoc EXCEPT !.ogDescription = <<text>>]
    [] source = "h1" -> [BaseDoc EXCEPT !.body = <<Elem("h1", <<TextNode(text)>>)>>]
    [] source = "ogTitle" -> [BaseDoc EXCEPT !.ogTitle = <<text>>]
    [] source = "pageTitle" -> [BaseDoc EXCEPT !.pageTitle = text]
    [] source = "script" -> [BaseDoc EXCEPT !.headScripts = <<text>>]

RemoteSources ==
  {"body", "metaDescription", "ogDescription", "h1", "ogTitle", "pageTitle", "script"}

\* pages for the remote scan: every text in the body; the word and its negation
\* in every source; a negation and the word it negates in different sources; the
\* sentence of a non-remote role among other words
RemoteDocs ==
  {InSource("body", text) : text \in RemoteTexts}
  \cup {InSource(source, text) :
          source \in RemoteSources,
          text \in {<<"r","e","m","o","t","e">>, <<"N","O","T"," ","R","E","M","O","T","E">>}}
  \cup {[BaseDoc EXCEPT !.metaDescription = << a >>, !.ogDescription = << b >>,
                        !.headScripts = << c >>] :
          a \in {<<"n","o">>, <<"R","e","m","o","t","e">>},
          b \in {<<"r","e","m","o","t","e">>, <<"x">>},
          c \in {<<>>, <<"n","o","n","-","r","e","m","o","t","e","l","y">>,
                 <<"n","o","n","r","e","m","o","t","e">>}}
  \cup {InSource("body", a \o NonRemoteRole \o b) :
          a \in {<<>>, <<"R","e","m","o","t","e",".", " ">>, <<"x">>},
          b \in {<<>>, <<"s">>, <<".", " ","r","e","m","o","t","e">>}}

NextRemote ==
  \/ JobRequest(1, JobUrl)
  \/ JobFetched(1)
  \/ \E doc \in RemoteDocs : JobResponds(1, doc)

\* one job request over the pages for the remote scan
SpecRemote == InitExtract /\ [][NextRemote]_vars

AustinTX == <<"A","u","s","t","i","n",","," ","T","X">>

\* a text of 18 + n characters: a descriptor, n filling characters, a city
Padded(n) == <<"H","y","b","r","i","d"," ">> \o [k \in 1..n |-> "x"] \o <<" ">> \o AustinTX

\* the texts of the nodes of the pages for the location hints: a city alone,
\* after capitalised and after lower-case words, a state before its city, a
\* descriptor, both orders in one node, and texts of 100 and of 101 characters
HintTexts ==
  { AustinTX,
    <<"B","a","s","e","d"," ","i","n"," ">> \o AustinTX,
    <<"n","o","w"," ","i","n"," ">> \o AustinTX \o <<" ","t","o","d","a","y">>,
    <<"T","X",","," ","A","u","s","t","i","n"," ","5">>,
    <<" ","H","y","b","r","i","d","\n">>,
    <<"S","a","n"," ","J","o","s","e",","," ","C","A"," ","o","r"," ","C","A",","," ","S","a","n"," ","J","o","s","e">>,
    Padded(MaxHintLen - 18),
    Padded(MaxHintLen - 17) }

MaxNodes == 2

HintTextSeqs == UNION { [1..n -> HintTexts] : n \in 0..MaxNodes }

\* the nodes side by side, inside one another, and outside the scanned tags
Flat(texts) == [k \in 1..Len(texts) |-> Elem("p", <<TextNode(texts[k])>>)] \o <<>>

Nested(texts) ==
  <<Elem("div", [k \in 1..Len(texts) |->
                   Elem(IF k % 2 = 1 THEN "span" ELSE "li", <<TextNode(texts[k])>>)]
                \o <<>>)>>

Headed(texts) == [k \in 1..Len(texts) |-> Elem("h2", <<TextNode(texts[k])>>)] \o <<>>

\* pages for the location hints: the nodes side by side and inside one another;
\* one node outside the scanned tags; one node on a page that mentions remote
HintDocs ==
  UNION { { [BaseDoc EXCEPT !.body = Flat(texts)],
            [BaseDoc EXCEPT !.body = Nested(texts)] } : texts \in HintTextSeqs }
  \cup { [BaseDoc EXCEPT !.body = Headed(<<text>>)] : text \in HintTexts }
  \cup { [BaseDoc EXCEPT !.body = Flat(<<text>>), !.metaDescription = <<RemoteLabel>>] :
           text \in HintTexts }

NextHints ==
  \/ JobRequest(1, JobUrl)
  \/ JobFetched(1)
  \/ \E doc \in HintDocs : JobResponds(1, doc)

\* one job request over the pages for the location hints
SpecHints == InitExtract /\ [][NextHints]_vars

JavaScript == <<"J","a","v","a","S","c","r","i","p","t">>

NodeJs == <<"N","o","d","e",".","j","s">>

\* lexicons with the labels of the overrides, in several letter cases
PatternFiles ==
  { << JsonStringify(<<JStr(React), JStr(JavaScript)>>) >>,
    << JsonStringify(<<JStr(<<"r","e","a","c","t">>), JStr(<<"N","o","d","e">>)>>) >>,
    << JsonStringify(<<JStr(<<"R","E","A","C","T">>), JStr(NodeJs)>>) >>,
    << JsonStringify(<<JStr(<<"j","a","v","a","s","c","r","i","p","t">>), JStr(<<"N","O","D","E",".","J","S">>)>>) >> }

MimeText == <<"t","e","x","t","/","j","a","v","a","s","c","r","i","p","t">>

MimeApplication == <<"a","p","p","l","i","c","a","t","i","o","n","/","j","a","v","a","s","c","r","i","p","t">>

MustKnow == <<"M","u","s","t"," ","k","n","o","w"," ","J","a","v","a","S","c","r","i","p","t",".">>

PlainSentence == <<"W","e"," ","u","s","e"," ","R","e","a","c","t",".","j","s"," ","a","n","d"," ","p","l","a","i","n"," ","J","a","v","a","S","c","r","i","p","t"," ","h","e","r","e",","," ","n","o","t"," ","t","e","x","t","/","j","a","v","a","s","c","r","i","p","t"," ","c","o","m","m","e","n","t","s",".">>

\* the mentions the overrides are about
PatternCores ==
  { MimeText, MimeApplication, MustKnow, <<"N","e","s","t","J","S">>,
    <<"R","e","a","c","t","J","S">>, <<"R","e","a","c","t",".","j","s">>, React, <<"R","e","a","c","t","o","r"," ","p","a","t","t","e","r","n">>,
    <<"N","o","d","e">>, NodeJs, <<"N","o","d","e","J","S">>, <<"N","o","d","e","s">>,
    PlainSentence }

\* the words around a mention: none, a word apart, a bracket, a letter attached
BlobBefore == { <<>>, <<"i","n"," ">>, <<"(">>, <<"x">> }

BlobAfter == { <<>>, <<" ","o","k">>, <<")">>, <<"s">> }

\* pages whose body text is one mention among other words
PatternDocs ==
  { InSource("body", pre \o core \o post) :
      pre \in BlobBefore, core \in PatternCores, post \in BlobAfter }

InitPatterns == \E file \in PatternFiles : Start(file)

NextPatterns ==
  \/ JobRequest(1, JobUrl)
  \/ JobFetched(1)
  \/ \E doc \in PatternDocs : JobResponds(1, doc)

\* one job request over the pages for the overrides, for each lexicon
SpecPatterns == InitPatterns /\ [][NextPatterns]_vars

\* pages for two requests in a row: with and without body text and meta tags
TwiceDocs ==
  { [BaseDoc EXCEPT !.body = <<Elem("p", <<TextNode(text)>>)>>,
                    !.metaKeywords = kw, !.articleTags = tags] :
      text \in { <<>>, React \o <<" ","a","n","d"," ">> \o Java \o <<",", " ">> \o Go },
      kw \in { <<>>, << Go \o <<",", " ">> \o Java >> },
      tags \in { <<>>, << <<Java>>, <<>> >> } }

\* the replace requests between two job requests: one rejected, one accepted
TwicePutBodies ==
  { [isArray |-> TRUE, items |-> <<JStr(<<" ">>), JNum(<<"5">>)>>],
    [isArray |-> TRUE, items |-> <<JStr(Go)>>] }

NextTwice ==
  \/ JobRequest(1, JobUrl)
  \/ JobFetched(1)
  \/ \E doc \in TwiceDocs : JobResponds(1, doc)
  \/ JobRequestAgain(1, JobUrl)
  \/ \E body \in TwicePutBodies : PutTechStacks(body, "written")

\* job requests one after the other on one server, with lexicon replaces
\* before, between and after them
SpecTwice == InitExtract /\ [][NextTwice]_vars

\* lexicons of labels without an override: plain words, two words, and labels
\* that begin or end with a character that is not a word character
DefaultFiles ==
  { << JsonStringify(<<JStr(Java), JStr(Go)>>) >>,
    << JsonStringify(<<JStr(<<"j","a","v","a">>), JStr(<<"S","p","r","i","n","g"," ","B","o","o","t">>)>>) >>,
    << JsonStringify(<<JStr(<<"C","+","+">>), JStr(<<".","N","E","T">>)>>) >> }

\* the labels in several letter cases and inside longer words
DefaultCores ==
  { Java, <<"J","A","V","A">>, <<"J","a","v","a","S","c","r","i","p","t">>, Go, <<"g","o">>, <<"G","o","l","a","n","g">>,
    <<"S","p","r","i","n","g"," ","B","o","o","t">>, <<"s","p","r","i","n","g"," ","b","o","o","t">>, <<"C","+","+">>, <<"c","+","+">>,
    <<".","N","E","T">>, <<".","n","e","t">>, <<"A","S","P",".","N","E","T">>, <<"C">> }

\* pages whose body text is one of them among other words
DefaultDocs ==
  { InSource("body", pre \o core \o post) :
      pre \in BlobBefore, core \in DefaultCores, post \in BlobAfter }

InitDefault == \E file \in DefaultFiles : Start(file)

NextDefault ==
  \/ JobRequest(1, JobUrl)
  \/ JobFetched(1)
  \/ \E doc \in DefaultDocs : JobResponds(1, doc)

\* one job request over the pages for the default rule, for each lexicon
SpecDefault == InitDefault /\ [][NextDefault]_vars

\* the texts that mention a label of the lexicon
HeadlineTexts == { React, Java \o <<" ","d","e","v","e","l","o","p","e","r">> }

\* a page holding the text in each of the given sources and nowhere else
HeadlineDoc(sources, text) ==
  LET In(source) == IF source \in sources THEN <<text>> ELSE <<>>
  IN [BaseDoc EXCEPT
        !.body = (IF "h1" \in sources THEN <<Elem("h1", <<TextNode(text)>>)>> ELSE <<>>)
                 \o (IF "body" \in sources THEN <<Elem("p", <<TextNode(text)>>)>> ELSE <<>>),
        !.metaDescription = In("metaDescription"),
        !.ogDescription = In("ogDescription"),
        !.ogTitle = In("ogTitle"),
        !.pageTitle = IF "pageTitle" \in sources THEN text ELSE <<>>,
        !.headScripts = In("script")]

\* pages that mention a label in every combination of the sources
HeadlineDocs ==
  { HeadlineDoc(sources, text) : sources \in SUBSET RemoteSources, text \in HeadlineTexts }

NextHeadline ==
  \/ JobRequest(1, JobUrl)
  \/ JobFetched(1)
  \/ \E doc \in HeadlineDocs : JobResponds(1, doc)

\* one job request over the pages that mention a label in some of the sources
SpecHeadline == InitExtract /\ [][NextHeadline]_vars

(***************************************************************************)
(* Claims about the lexicon store                                          *)
(***************************************************************************)
\* a lexicon the scan of one page can be explained by
ScannedWith(j, lexicon) ==
  job[j].payload[1].techStacks
    = PayloadTechStacks(collectKeywords(job[j].doc[1], TextForStacksScan(job[j].doc[1]),
                                        lexicon))

\* C2: every read of the lexicon (a GET /api/tech-stacks response, the lexicon one
\* scan iterates, the tech stacks one scan reports) is one lexicon that was
\* installed as a whole, never a mixture of an old and a new one
C2_ReadsSeeWholeLexicon ==
  /\ lastGet # <<>> => lastGet[1] \in complete
  /\ \A j \in Jobs :
       job[j].status = 200 =>
         /\ job[j].lexicon[1] \in complete
         /\ \E lexicon \in complete : ScannedWith(j, lexicon)

\* C2 witness: a replace was accepted, a GET returned the lexicon it installed and
\* a job request scanned with it, at least the third lexicon since the first start
C2_Witness ==
  /\ lastPut.status = 200
  /\ lastGet # <<>> /\ lastGet[1] = AsLexicon(Cleaned(lastPut.body.items))
  /\ \E j \in Jobs :
       /\ job[j].status = 200
       /\ job[j].lexicon[1] = AsLexicon(Cleaned(lastPut.body.items))
       /\ Cardinality(complete) >= 3

\* a payload that is already a cleaned label set: strings only, none empty, none
\* with white space at either end, none twice
IsCleanedSet(items) ==
  /\ items # <<>>
  /\ \A n \in 1..Len(items) :
       /\ items[n].t = "string"
       /\ items[n].v # <<>>
       /\ items[n].v[1] \notin SpaceChars
       /\ items[n].v[Len(items[n].v)] \notin SpaceChars
  /\ NoDuplicates(items)

IsLabelEntry(x) == x.t = "string" /\ \E n \in 1..Len(x.v) : x.v[n] \notin SpaceChars

\* C4 as stated: a replace whose payload is not an array, or has an entry that is
\* not a non-empty string after trimming, is rejected
C4_AnyBadEntryRejected ==
  (lastPut.status # 0
     /\ (~lastPut.body.isArray
           \/ \E n \in 1..Len(lastPut.body.items) : ~IsLabelEntry(lastPut.body.items[n])))
    => lastPut.status = 400

\* C4 amended: a replace whose payload is not an array, or has no entry that is a
\* non-empty string after trimming, is answered 400 and leaves the in-memory
\* lexicon and the store as they were; every other replace is accepted
C4_InvalidReplaceRejected ==
  [][(lastPut' # lastPut /\ lastPut'.live) =>
       IF ~lastPut'.body.isArray
          \/ \A n \in 1..Len(lastPut'.body.items) : ~IsLabelEntry(lastPut'.body.items[n])
         THEN lastPut'.status = 400 /\ techStacks' = techStacks /\ dbFile' = dbFile
         ELSE lastPut'.status = 200]_vars

\* C4 witness: an array of blank strings and a number was rejected after an
\* accepted replace had set the lexicon
C4_Witness ==
  /\ lastPut.status = 400
  /\ lastPut.body.isArray /\ Len(lastPut.body.items) = 3
  /\ Cardinality(complete) >= 2

\* C5: the lexicon in memory, and the one a start would load from the store as it
\* is now, is never empty
C5_LoadedLexiconNeverEmpty ==
  techStacks # <<>> /\ readTechStacksFromFile(dbFile) # <<>>

\* C6: the in-memory lexicon is a non-empty list of strings, each of them
\* non-empty with no white space at either end, none twice
C6_LexiconWellFormed == IsCleanedSet(techStacks)
(***************************************************************************)
(* Claims about the extraction functions                                   *)
(***************************************************************************)
\* the list collectKeywords returns for the page of a finished job, with the
\* lexicon its scan read
Keywords(j) ==
  collectKeywords(job[j].doc[1], TextForStacksScan(job[j].doc[1]), job[j].lexicon[1])

\* the string labels of a lexicon
LabelsOf(lexicon) == {lexicon[n].v : n \in {m \in 1..Len(lexicon) : lexicon[m].t = "string"}}

\* the position of the first occurrence of the label x in the lexicon
FirstIndex(lexicon, x) ==
  CHOOSE n \in 1..Len(lexicon) :
    /\ lexicon[n].t = "string" /\ lexicon[n].v = x
    /\ \A m \in 1..(n - 1) : ~(lexicon[m].t = "string" /\ lexicon[m].v = x)

\* xs lists labels of the lexicon in the order of their first occurrence in it
InLexiconOrder(xs, lexicon) ==
  /\ \A n \in 1..Len(xs) : xs[n] \in LabelsOf(lexicon)
  /\ \A a, b \in 1..Len(xs) :
       a < b => FirstIndex(lexicon, xs[a]) < FirstIndex(lexicon, xs[b])

\* C1 as stated: the list collectKeywords returns holds only labels of the
\* lexicon, none twice, in the order of their first occurrence in the lexicon
C1_OnlyLexiconLabels ==
  \A j \in Jobs :
    job[j].status = 200 =>
      /\ NoDuplicates(Keywords(j))
      /\ InLexiconOrder(Keywords(j), job[j].lexicon[1])

\* the entries the keywords and article:tag meta tags of a page put in the list
StructuredEntries(doc) == Range(MetaKeywordEntries(doc)) \cup Range(ArticleTagEntries(doc))

\* C1 amended: the list collectKeywords returns has no duplicates; its entries
\* that are not entries of the keywords or article:tag meta tags are labels of
\* the lexicon, in the order of their first occurrence in the lexicon; so for a
\* page without these meta tags the whole list is
C1_LexiconLabelsInOrder ==
  \A j \in Jobs :
    job[j].status = 200 =>
      LET found == Keywords(j)
          IsScanned(x) == x \notin StructuredEntries(job[j].doc[1])
      IN /\ NoDuplicates(found)
         /\ InLexiconOrder(SelectSeq(found, IsScanned), job[j].lexicon[1])
         /\ job[j].payload[1].techStacks = PayloadTechStacks(found)

\* C1 witness: a lexicon that repeats a label, a page without meta tags that
\* mentions two of its labels
C1_Witness ==
  \E j \in Jobs :
    /\ job[j].status = 200
    /\ ~NoDuplicates(job[j].lexicon[1])
    /\ StructuredEntries(job[j].doc[1]) = {}
    /\ Len(Keywords(j)) = 2

\* C10: the title is the first of <h1> text, og:title and <title> text that is
\* not empty after trimming, trimmed, and "Untitled role" when there is none
C10_TitleFirstNonBlank ==
  \A j \in Jobs :
    job[j].status = 200 =>
      LET doc == job[j].doc[1]
          og == IF doc.ogTitle = <<>> THEN <<>> ELSE doc.ogTitle[1]
          cands == <<H1Title(doc), og, doc.pageTitle>>
          filled == {k \in 1..3 : \E n \in 1..Len(cands[k]) : cands[k][n] \notin SpaceChars}
      IN job[j].payload[1].title =
           IF filled = {} THEN UntitledRole
           ELSE Trim(cands[CHOOSE k \in filled : \A m \in filled : k <= m])
\* the text t holds the word s at position i, in any case
WordAt(t, i, s) ==
  /\ i >= 1 /\ i + Len(s) - 1 <= Len(t)
  /\ \A k \in 1..Len(s) : ToLower(t[i + k - 1]) = s[k]

\* a whole-word "remote" starts at position i of t
RemoteAt(t, i) ==
  /\ WordAt(t, i, RemoteWord)
  /\ ~IsWord(t, i - 1) /\ ~IsWord(t, i + Len(RemoteWord))

\* a negation of "remote" starts at position i of t: no, not or non at the start
\* of a word, at most one hyphen or white-space character, "remote" ending a word
NegationAt(t, i) ==
  \E neg \in {<<"n","o">>, <<"n","o","t">>, <<"n","o","n">>}, gap \in {0, 1} :
    /\ ~IsWord(t, i - 1)
    /\ WordAt(t, i, neg)
    /\ gap = 1 => i + Len(neg) <= Len(t) /\ t[i + Len(neg)] \in {"-"} \cup SpaceChars
    /\ WordAt(t, i + Len(neg) + gap, RemoteWord)
    /\ ~IsWord(t, i + Len(neg) + gap + Len(RemoteWord))

MentionsRemote(t) == \E i \in 1..Len(t) : RemoteAt(t, i)

NegatesRemote(t) == \E i \in 1..Len(t) : NegationAt(t, i)

IsNotRemote(location) ==
  /\ Len(location) >= Len(NotRemoteLabel)
  /\ Sub(location, 1, Len(NotRemoteLabel)) = NotRemoteLabel

\* C7: the location is Remote exactly when the aggregated text holds a
\* whole-word "remote" in any case and no negation of it (no, not or non, an
\* optional hyphen or space, remote), and Not Remote in every other case; text
\* containing "This is a non-remote role" gives Not Remote
C7_RemoteIffMentionedNotNegated ==
  \A j \in Jobs :
    job[j].status = 200 =>
      LET text == TextForRemoteScan(job[j].doc[1])
          location == job[j].payload[1].location
      IN /\ location = RemoteLabel <=> MentionsRemote(text) /\ ~NegatesRemote(text)
         /\ location # RemoteLabel => IsNotRemote(location)
         /\ Contains(text, NonRemoteRole) => IsNotRemote(location)

\* C7 witness: a page whose text holds a whole-word "remote" of its own next to
\* the sentence of a non-remote role, and is Not Remote
C7_Witness ==
  \E j \in Jobs :
    /\ job[j].status = 200
    /\ Contains(TextForRemoteScan(job[j].doc[1]), NonRemoteRole)
    /\ Cardinality({i \in 1..Len(TextForRemoteScan(job[j].doc[1])) :
                      RemoteAt(TextForRemoteScan(job[j].doc[1]), i)}) >= 2
    /\ IsNotRemote(job[j].payload[1].location)

\* C7 second witness: a page classified Remote
C7_WitnessRemote ==
  \E j \in Jobs :
    /\ job[j].status = 200
    /\ job[j].payload[1].location = RemoteLabel
\* the trimmed texts of the p, span, li and div elements, in document order
NodeTexts(doc) ==
  LET elems == SelectTags(doc, HintTags)
  IN [k \in 1..Len(elems) |-> Trim(NodeText(elems[k]))] \o <<>>

\* the first position after c of t that holds no white space
AfterSpace(t, c) ==
  CHOOSE s \in (c + 1)..(Len(t) + 1) :
    /\ s > Len(t) \/ t[s] \notin SpaceChars
    /\ \A m \in (c + 1)..(s - 1) : t[m] \in SpaceChars

\* the end of the "City, ST" text that starts at position a of t, 0 if there is
\* none: a capital letter at the start of a word, letters, dots and white space
\* up to a comma, white space, a two-letter upper-case code that ends a word
CityStateEnd(t, a) ==
  LET commas == {c \in (a + 2)..Len(t) :
                   t[c] = "," /\ \A m \in (a + 1)..(c - 1) : t[m] \in CityChars}
      code == AfterSpace(t, CHOOSE c \in commas : TRUE)
  IN IF /\ t[a] \in UpperChars /\ ~IsWord(t, a - 1)
        /\ commas # {}
        /\ code + 1 <= Len(t) /\ t[code] \in UpperChars /\ t[code + 1] \in UpperChars
        /\ ~IsWord(t, code + 2)
       THEN code + 1 ELSE 0

\* the end of the "ST, City" text that starts at position a of t, 0 if there is
\* none: a two-letter upper-case code at the start of a word, a comma, white
\* space, a capital letter, and the longest run of letters, dots and white space
\* that ends where a word starts or ends
StateCityEnd(t, a) ==
  LET city == AfterSpace(t, a + 2)
      run == {e \in (city + 1)..Len(t) : \A m \in (city + 1)..e : t[m] \in CityChars}
      ends == {e \in run : IsWord(t, e) # IsWord(t, e + 1)}
  IN IF /\ a + 2 <= Len(t)
        /\ t[a] \in UpperChars /\ t[a + 1] \in UpperChars /\ ~IsWord(t, a - 1)
        /\ t[a + 2] = ","
        /\ city <= Len(t) /\ t[city] \in UpperChars
        /\ ends # {}
       THEN CHOOSE e \in ends : \A x \in ends : x <= e
       ELSE 0

\* the leftmost "City, ST" text of t, as a set of at most one text
CityStateOf(t) ==
  LET starts == {a \in 1..Len(t) : CityStateEnd(t, a) # 0}
      a == CHOOSE x \in starts : \A y \in starts : x <= y
  IN IF starts = {} THEN {} ELSE {Sub(t, a, CityStateEnd(t, a))}

\* the leftmost "ST, City" text of t, trimmed, as a set of at most one text
StateCityOf(t) ==
  LET starts == {a \in 1..Len(t) : StateCityEnd(t, a) # 0}
      a == CHOOSE x \in starts : \A y \in starts : x <= y
  IN IF starts = {} THEN {} ELSE {Trim(Sub(t, a, StateCityEnd(t, a)))}

\* t names an on-site, in-office or hybrid arrangement
HasDescriptor(t) ==
  \E i \in 1..Len(t) :
    \/ WordAt(t, i, <<"h","y","b","r","i","d">>)
    \/ \E gap \in {0, 1} :
         /\ gap = 1 => i + 2 <= Len(t) /\ t[i + 2] \in {"-"} \cup SpaceChars
         /\ \/ WordAt(t, i, <<"o","n">>) /\ WordAt(t, i + 2 + gap, <<"s","i","t","e">>)
            \/ WordAt(t, i, <<"i","n">>) /\ WordAt(t, i + 2 + gap, <<"o","f","f","i","c","e">>)

Qualifies(t) == Len(t) >= MinHintLen /\ Len(t) <= MaxHintLen

\* the hints a node of text t stands for, one set per pattern
NodePatterns(t) ==
  IF Qualifies(t)
    THEN <<IF HasDescriptor(t) THEN {t} ELSE {}, CityStateOf(t), StateCityOf(t)>>
    ELSE <<{}, {}, {}>>

\* the "City, ST" texts of the cities of the pages, as they occur in t
CityTexts == {AustinTX, <<"S","a","n"," ","J","o","s","e",","," ","C","A">>}

CityOccurrences(t) ==
  {c \in CityTexts :
     \E i \in 1..Len(t) :
       /\ i + Len(c) - 1 <= Len(t) /\ Sub(t, i, i + Len(c) - 1) = c
       /\ ~IsWord(t, i - 1) /\ ~IsWord(t, i + Len(c))}

\* the location of the payload is Not Remote followed by the hints
NotRemoteWith(location, hints) ==
  location = IF hints = <<>> THEN NotRemoteLabel
             ELSE NotRemoteLabel \o <<"\n">> \o Join(hints, <<" ", "/", " ">>)

C9_HintListShape ==
  \A j \in Jobs :
    job[j].status = 200 =>
      LET doc == job[j].doc[1]
          hints == job[j].hints
          texts == NodeTexts(doc)
          body == BodyText(doc)
          patterns == [k \in 1..Len(texts) |-> NodePatterns(texts[k])] \o <<>>
          producers == [n \in 1..Len(hints) |->
                          {k \in 1..Len(texts) : \E p \in 1..3 : hints[n] \in patterns[k][p]}] \o <<>>
          first == [n \in 1..Len(hints) |->
                      CHOOSE k \in producers[n] : \A m \in producers[n] : k <= m] \o <<>>
      IN /\ \A n \in 1..Len(hints) :
              /\ Len(hints[n]) >= 4 /\ Len(hints[n]) <= 100
              /\ Contains(body, hints[n])
              /\ producers[n] # {}
         /\ NoDuplicates(hints)
         /\ \A m, n \in 1..Len(hints) : m < n => first[m] <= first[n]
         /\ \A k \in 1..Len(texts) :
              Cardinality({n \in 1..Len(hints) : first[n] = k})
                <= Cardinality({p \in 1..3 : patterns[k][p] # {}})

\* C9 witness: two nodes, the first giving a hint for each of two patterns, the
\* second a text of more than 100 characters that gives none
C9_Witness ==
  \E j \in Jobs :
    /\ job[j].status = 200
    /\ Len(job[j].hints) = 2
    /\ Len(NodeTexts(job[j].doc[1])) = 2
    /\ Len(NodeTexts(job[j].doc[1])[2]) > MaxHintLen
    /\ NodePatterns(NodeTexts(job[j].doc[1])[1])[2] # {}
    /\ NodePatterns(NodeTexts(job[j].doc[1])[1])[3] # {}

\* t has a character that is no white space
NonBlank(t) == \E n \in 1..Len(t) : t[n] \notin SpaceChars

\* the texts of the [data-company-name] elements of a page, in document order
CompanyTexts(doc) ==
  LET IsCompany(e) == e.company
      elems == SelectSeq(Elements(doc.body), IsCompany)
  IN [k \in 1..Len(elems) |-> NodeText(elems[k])] \o <<>>

\* C11: the company is the first of og:site_name content and the text of the
\* first [data-company-name] element that is not empty after trimming, trimmed;
\* when there is none the company is absent, never an empty or blank string
C11_CompanyFirstNonBlank ==
  \A j \in Jobs :
    job[j].status = 200 =>
      LET doc == job[j].doc[1]
          site == IF doc.ogSiteName = <<>> THEN <<>> ELSE doc.ogSiteName[1]
          texts == CompanyTexts(doc)
          attr == IF texts = <<>> THEN <<>> ELSE texts[1]
          company == job[j].payload[1].company
      IN /\ company = IF NonBlank(site) THEN <<Trim(site)>>
                      ELSE IF NonBlank(attr) THEN <<Trim(attr)>>
                      ELSE <<>>
         /\ company # <<>> => NonBlank(company[1])

\* C11 witness: og:site_name is blank and the company comes from the element
C11_Witness ==
  \E j \in Jobs :
    /\ job[j].status = 200
    /\ job[j].doc[1].ogSiteName = << <<" ">> >>
    /\ CompanyTexts(job[j].doc[1]) = << <<"C","o"," ">> >>
    /\ job[j].payload[1].company = << <<"C","o">> >>

\* C11 second witness: every candidate is blank and the company is absent
C11_WitnessAbsent ==
  \E j \in Jobs :
    /\ job[j].status = 200
    /\ job[j].doc[1].ogSiteName = << <<" ">> >>
    /\ Len(CompanyTexts(job[j].doc[1])) = 2
    /\ job[j].payload[1].company = <<>>

(***************************************************************************)
(* Claims about the overrides of the lexicon scan                          *)
(***************************************************************************)
\* the tech stacks of the finished job j hold the entry x
Reports(j, x) == \E n \in 1..Len(job[j].payload[1].techStacks) : job[j].payload[1].techStacks[n] = x

\* the lexicon the scan of job j read holds the label x
HasLabel(j, x) == \E n \in 1..Len(job[j].lexicon[1]) : job[j].lexicon[1][n] = JStr(x)

\* every "javascript" of t, in any case, follows "text/" or "application/", there
\* is one, and t has no "js"
OnlyMimeMentions(t) ==
  /\ \E i \in 1..Len(t) : WordAt(t, i, <<"j","a","v","a","s","c","r","i","p","t">>)
  /\ \A i \in 1..Len(t) :
       WordAt(t, i, <<"j","a","v","a","s","c","r","i","p","t">>) =>
         \/ WordAt(t, i - 5, <<"t","e","x","t","/">>)
         \/ WordAt(t, i - 12, <<"a","p","p","l","i","c","a","t","i","o","n","/">>)
  /\ \A i \in 1..Len(t) : ~WordAt(t, i, <<"j","s">>)

\* C12: with JavaScript in the lexicon, a page text whose only JavaScript
\* mentions are text/javascript or application/javascript reports no JavaScript;
\* a page text containing "Must know JavaScript." reports it; the page text
\* NestJS reports none
C12_JavaScriptOverride ==
  \A j \in Jobs :
    job[j].status = 200 /\ HasLabel(j, JavaScript) =>
      LET blob == BodyText(job[j].doc[1])
      IN /\ OnlyMimeMentions(blob) => ~Reports(j, JavaScript)
         /\ Contains(blob, MustKnow) => Reports(j, JavaScript)
         /\ Trim(blob) = <<"N","e","s","t","J","S">> => ~Reports(j, JavaScript)

\* C12 witness: a page text containing "Must know JavaScript." is scanned with
\* JavaScript in the lexicon, and JavaScript is reported
C12_Witness ==
  \E j \in Jobs :
    /\ job[j].status = 200 /\ HasLabel(j, JavaScript)
    /\ Contains(BodyText(job[j].doc[1]), MustKnow)
    /\ Reports(j, JavaScript)

\* C12 second witness: a page whose only mention is application/javascript
C12_WitnessMime ==
  \E j \in Jobs :
    /\ job[j].status = 200 /\ HasLabel(j, JavaScript)
    /\ BodyText(job[j].doc[1]) = <<"(">> \o MimeApplication \o <<")">>
    /\ ~Reports(j, JavaScript)

\* x and y are the same text but for the case of their letters
SameIgnoringCase(x, y) ==
  Len(x) = Len(y) /\ \A k \in 1..Len(x) : ToLower(x[k]) = ToLower(y[k])

\* the labels of the lexicon job j read that are x in some letter case
LabelsLike(j, x) ==
  {job[j].lexicon[1][n].v :
     n \in {m \in 1..Len(job[j].lexicon[1]) :
              /\ job[j].lexicon[1][m].t = "string"
              /\ SameIgnoringCase(job[j].lexicon[1][m].v, x)}}

\* C13: with React in the lexicon, in any letter case, each of the page texts
\* ReactJS, React.js and React reports the label, and Reactor pattern does not
C13_ReactOverride ==
  \A j \in Jobs :
    job[j].status = 200 =>
      LET blob == BodyText(job[j].doc[1])
      IN \A label \in LabelsLike(j, React) :
           /\ blob \in {<<"R","e","a","c","t","J","S">>, <<"R","e","a","c","t",".","j","s">>, React}
                => Reports(j, label)
           /\ blob = <<"R","e","a","c","t","o","r"," ","p","a","t","t","e","r","n">>
                => ~Reports(j, label)

\* C13 witness: the label REACT and the page text React.js
C13_Witness ==
  \E j \in Jobs :
    /\ job[j].status = 200
    /\ BodyText(job[j].doc[1]) = <<"R","e","a","c","t",".","j","s">>
    /\ LabelsLike(j, React) = {<<"R","E","A","C","T">>}
    /\ Reports(j, <<"R","E","A","C","T">>)

\* C13 second witness: the label react and the page text Reactor pattern
C13_WitnessReactor ==
  \E j \in Jobs :
    /\ job[j].status = 200
    /\ BodyText(job[j].doc[1]) = <<"R","e","a","c","t","o","r"," ","p","a","t","t","e","r","n">>
    /\ LabelsLike(j, React) = {<<"r","e","a","c","t">>}
    /\ job[j].payload[1].techStacks = <<NotProvided>>

\* the token tok stands at position i of t, between word boundaries
TokenAt(t, i, tok) ==
  /\ i + Len(tok) - 1 <= Len(t) /\ Sub(t, i, i + Len(tok) - 1) = tok
  /\ ~IsWord(t, i - 1) /\ ~IsWord(t, i + Len(tok))

\* t holds Node, Node.js or NodeJS as a token between word boundaries
HasNodeToken(t) ==
  \E i \in 1..Len(t) :
    \E tok \in {<<"N","o","d","e">>, NodeJs, <<"N","o","d","e","J","S">>} : TokenAt(t, i, tok)

\* C14: a label that is Node or Node.js in some letter case is reported for
\* every page text that holds Node, Node.js or NodeJS as a word-bounded token
C14_NodeOverride ==
  \A j \in Jobs :
    job[j].status = 200 =>
      \A label \in LabelsLike(j, <<"N","o","d","e">>) \cup LabelsLike(j, NodeJs) :
        HasNodeToken(BodyText(job[j].doc[1])) => Reports(j, label)

\* the part of C14 about the label Node alone
C14_NodeLabelOnly ==
  \A j \in Jobs :
    job[j].status = 200 =>
      \A label \in LabelsLike(j, <<"N","o","d","e">>) :
        HasNodeToken(BodyText(job[j].doc[1])) => Reports(j, label)

\* C15: with the lexicon React, JavaScript and a page whose scanned text is the
\* sentence "We use React.js and plain JavaScript here, not text/javascript
\* comments.", without keywords or article:tag meta tags, techStacks is
\* React, JavaScript in that order
C15_EndToEnd ==
  \A j \in Jobs :
    ( /\ job[j].status = 200
      /\ job[j].lexicon[1] = <<JStr(React), JStr(JavaScript)>>
      /\ TextForStacksScan(job[j].doc[1]) = PlainSentence
      /\ StructuredEntries(job[j].doc[1]) = {} )
    => job[j].payload[1].techStacks = <<React, JavaScript>>

\* C15 witness: the job of the scenario has finished
C15_Witness ==
  \E j \in Jobs :
    /\ job[j].status = 200
    /\ job[j].lexicon[1] = <<JStr(React), JStr(JavaScript)>>
    /\ job[j].doc[1] = InSource("body", PlainSentence)
    /\ Len(job[j].payload[1].techStacks) = 2

\* C16: techStacks of every successful job result is not empty: it is the one
\* sentinel "Not provided" when the meta tags and the lexicon scan give no
\* entry, and the collected list as it is otherwise
C16_TechStacksNeverEmpty ==
  \A j \in Jobs :
    job[j].status = 200 =>
      LET found == Keywords(j)
          reported == job[j].payload[1].techStacks
      IN /\ Len(reported) >= 1
         /\ found = <<>> => reported = <<NotProvided>>
         /\ found # <<>> => reported = found /\ ~Reports(j, NotProvided)

\* C16 witness: a page on which nothing is found, answered with the sentinel
C16_Witness ==
  \E j \in Jobs :
    /\ job[j].status = 200
    /\ Keywords(j) = <<>>
    /\ job[j].payload[1].techStacks = <<NotProvided>>

\* C16 witness: a page on which two entries are found
C16_WitnessFound ==
  \E j \in Jobs :
    /\ job[j].status = 200
    /\ Len(Keywords(j)) = 2
    /\ job[j].payload[1].techStacks = Keywords(j)

\* the trimmed contents of the article:tag meta tags that have a content
TagContents(doc) ==
  {Trim(doc.articleTags[n][1]) :
     n \in {m \in 1..Len(doc.articleTags) :
              doc.articleTags[m] # <<>> /\ doc.articleTags[m][1] # <<>>}}

\* the trimmed parts of the keywords meta tag that are not empty
KeywordParts(doc) ==
  IF doc.metaKeywords = <<>> THEN {}
  ELSE {Trim(part) : part \in Range(Split(doc.metaKeywords[1], ","))} \ {<<>>}

\* the entries of the meta tags come before the entries of the scan alone
StructuredFirst(j) ==
  LET reported == job[j].payload[1].techStacks
      structured == KeywordParts(job[j].doc[1]) \cup TagContents(job[j].doc[1])
  IN \A a, b \in 1..Len(reported) :
       (reported[a] \notin structured /\ reported[b] \in structured) => b < a

\* C17: every trimmed, non-empty entry of the keywords meta tag and the content
\* of every article:tag meta tag is reported, whatever the lexicon; each is a
\* non-empty string; all of them precede the entries of the lexicon scan alone
C17_StructuredEntries ==
  \A j \in Jobs :
    job[j].status = 200 =>
      LET doc == job[j].doc[1]
      IN /\ \A x \in KeywordParts(doc) \cup TagContents(doc) :
              Reports(j, x) /\ x # <<>>
         /\ StructuredFirst(j)

\* the part of C17 that does not depend on the contents being non-empty
C17_NonBlankEntries ==
  \A j \in Jobs :
    job[j].status = 200 =>
      LET doc == job[j].doc[1]
      IN /\ \A x \in KeywordParts(doc) \cup TagContents(doc) : Reports(j, x)
         /\ \A x \in KeywordParts(doc) : x # <<>>
         /\ StructuredFirst(j)

(***************************************************************************)
(* Claims about the text the lexicon scan reads                            *)
(***************************************************************************)
\* C18: a label of the lexicon that occurs only in the <h1>, the og:title or
\* the <title> of a page is not reported in techStacks
C18_HeadlinesNotScanned ==
  \A j \in Jobs :
    job[j].status = 200 =>
      \A sources \in SUBSET {"h1", "ogTitle", "pageTitle"} :
        \A text \in HeadlineTexts :
          job[j].doc[1] = HeadlineDoc(sources, text) =>
            ~Reports(j, React) /\ ~Reports(j, Java)

\* the part of C18 about og:title and <title>
C18_TitlesNotScanned ==
  \A j \in Jobs :
    job[j].status = 200 =>
      \A sources \in SUBSET {"ogTitle", "pageTitle"} :
        \A text \in HeadlineTexts :
          job[j].doc[1] = HeadlineDoc(sources, text) =>
            ~Reports(j, React) /\ ~Reports(j, Java)

C19_WitnessReplaced ==
  \E j \in Jobs :
    /\ job[j].status = 200 /\ job[j].before # <<>>
    /\ job[j].doc[1] = job[j].before[1].doc
    /\ job[j].lexicon[1] # job[j].before[1].lexicon
    /\ job[j].payload[1].techStacks # job[j].before[1].techStacks

\* a step of the job request in slot j: the slot changes and is not set back
\* to idle by a restart
JobStep(j) == job'[j] # job[j] /\ job'[j].pc # "idle"

\* C20: a step of a job request, answered 200, 400 or 500, leaves the lexicon
\* in memory and the store file as they are; whenever one of them changes, the
\* step is a replace answered 200 and the lexicon is what it installed
C20_OnlyReplaceChangesLexicon ==
  [][ /\ (\E j \in Jobs : JobStep(j)) => UNCHANGED <<techStacks, dbFile>>
      /\ (techStacks' # techStacks \/ dbFile' # dbFile) =>
           /\ lastPut'.status = 200 /\ lastPut'.live
           /\ techStacks' = AsLexicon(Cleaned(lastPut'.body.items))
           /\ readTechStacksFromFile(dbFile') = techStacks' ]_vars

\* C20 witness: a job request has failed after an accepted replace, and the
\* lexicon and the store are those of the replace
C20_Witness ==
  \E j \in Jobs :
    /\ job[j].pc = "done" /\ job[j].status = 500
    /\ lastPut.status = 200 /\ lastPut.live
    /\ techStacks = <<JStr(Go)>>
    /\ readTechStacksFromFile(dbFile) = techStacks

\* C20 witness: a job request was answered 200 after an accepted replace
C20_WitnessAnswered ==
  \E j \in Jobs :
    /\ job[j].pc = "done" /\ job[j].status = 200
    /\ lastPut.status = 200 /\ lastPut.live
    /\ job[j].lexicon[1] = <<JStr(Go)>>
    /\ techStacks = <<JStr(Go)>>
    /\ readTechStacksFromFile(dbFile) = techStacks

\* C21: the step that answers a job request 200 computes techStacks from the
\* lexicon in memory at that step alone, whatever the lexicon was while the
\* request awaited its page; a later change of the lexicon leaves the answer
\* of a finished request as it is
C21_LexiconReadOnce ==
  [][ \A j \in Jobs :
        /\ (job[j].pc = "reading" /\ job'[j].pc = "done" /\ job'[j].status = 200) =>
             /\ job'[j].payload[1].techStacks =
                  PayloadTechStacks(collectKeywords(job'[j].doc[1],
                                                    TextForStacksScan(job'[j].doc[1]),
                                                    techStacks))
             /\ techStacks' = techStacks
        /\ (job[j].pc = "done" /\ techStacks' # techStacks) => job'[j] = job[j] ]_vars

\* C21 witness: a replace completed while the request awaited its page, and
\* the answer holds the label of the new lexicon and none of the old one
C21_Witness ==
  \E j \in Jobs :
    /\ job[j].pc = "done" /\ job[j].status = 200
    /\ job[j].asked[1] # techStacks
    /\ techStacks = <<JStr(Go)>>
    /\ job[j].doc[1] = DocAustinJava
    /\ job[j].payload[1].techStacks = <<Go>>

\* C21 witness: a replace completed after the scan, and the answer still holds
\* the label of the lexicon that was scanned
C21_WitnessAfter ==
  \E j \in Jobs :
    /\ job[j].pc = "done" /\ job[j].status = 200
    /\ job[j].doc[1] = DocAustinJava
    /\ techStacks = <<JStr(Go)>>
    /\ job[j].payload[1].techStacks = <<Go, Java>>

(***************************************************************************)
(* Claims about the default rule of the lexicon scan                       *)
(***************************************************************************)
\* the label has one of the overrides
HasOverride(label) ==
  \/ IsReactLabel(label) \/ IsNodeLabel(label) \/ IsJavaScriptLabel(label)
  \/ IsTypeScriptLabel(label) \/ IsAwsLabel(label)

\* the positions of t at which the label stands, in any letter case
OccurrencesOf(t, label) ==
  {i \in 1..Len(t) :
     /\ i + Len(label) - 1 <= Len(t)
     /\ SameIgnoringCase(Sub(t, i, i + Len(label) - 1), label)}

\* the occurrence at i has white space or an end of the text on both sides
Delimited(t, i, label) ==
  /\ i = 1 \/ t[i - 1] \in SpaceChars
  /\ i + Len(label) - 1 = Len(t) \/ t[i + Len(label)] \in SpaceChars

\* the occurrence at i has a letter or a digit right before or right after it
InLongerWord(t, i, label) ==
  \/ i > 1 /\ t[i - 1] \in WordChars \ {"_"}
  \/ i + Len(label) <= Len(t) /\ t[i + Len(label)] \in WordChars \ {"_"}

\* what the default rule is to do with one label on the page of job j
DefaultRuleFor(j, label) ==
  LET blob == BodyText(job[j].doc[1])
      at == OccurrencesOf(blob, label)
  IN /\ (\E i \in at : Delimited(blob, i, label)) => Reports(j, label)
     /\ (at # {} /\ \A i \in at : InLongerWord(blob, i, label)) => ~Reports(j, label)

\* the trimmed, non-empty labels without an override of the lexicon job j read
DefaultLabels(j) ==
  {label \in LabelsOf(job[j].lexicon[1]) :
     label # <<>> /\ Trim(label) = label /\ ~HasOverride(label)}

\* C22: every non-empty label without an override, also one that begins or
\* ends with a character that is not a word character, is reported when it
\* stands in the text in any letter case between white space or the ends of
\* the text, and is not reported when it stands only inside longer words
C22_DefaultRule ==
  \A j \in Jobs :
    job[j].status = 200 => \A label \in DefaultLabels(j) : DefaultRuleFor(j, label)

\* the part of C22 about labels that begin and end with a word character
C22_WordEdgedLabels ==
  \A j \in Jobs :
    job[j].status = 200 =>
      \A label \in DefaultLabels(j) :
        (label[1] \in WordChars /\ label[Len(label)] \in WordChars) =>
          DefaultRuleFor(j, label)

(***************************************************************************)
(* Claims about the client                                                 *)
(***************************************************************************)
\* a batch is in flight
Loading == client.status = "loading"

\* the links of the skipped list
Skipped == SourceLinks(client.skippedLinks)

\* once its batch has ended, a link whose fetch failed since the last edit is
\* in the skipped list; the links of a batch in flight are not in it
C23_RecordedAndExcluded ==
  /\ ~Loading => client.failed \subseteq Skipped
  /\ Loading => \A n \in 1..Len(client.batch[1].links) :
                  client.batch[1].links[n] \notin Skipped

\* the step of an edit leaves the skipped list empty, in flight or not
C23_EditClears ==
  [][ client'.linkInput # client.linkInput => client'.skippedLinks = <<>> ]_vars

\* C23: a link whose fetch failed in a batch is in the skipped list when the
\* batch has ended and is in no later batch, until the link input is edited;
\* an edit clears the list, also while a batch is in flight: the links of the
\* skipped list are links whose fetch failed after the last edit
C23_SkippedUntilEdited ==
  /\ C23_RecordedAndExcluded
  /\ Skipped \subseteq client.failed

\* the entries of the batch b whose fetch was answered with answer, in order
EntriesAnswered(b, answer) ==
  LET Is(k) == k <= Len(b.answers) /\ b.answers[k] = answer
      at == SelectSeq([k \in 1..Len(b.links) |-> k] \o <<>>, Is)
  IN [n \in 1..Len(at) |-> b.links[at[n]]] \o <<>>

\* the links of a list of entries, in order
LinksOf(entries) == [n \in 1..Len(entries) |-> entries[n].sourceLink] \o <<>>

\* the local lists of a batch split its answered entries by their answers, and
\* fetch was called on its links in their order, one more than were answered
\* while it is in flight
BatchInOrder ==
  client.batch # <<>> =>
    LET b == client.batch[1]
    IN /\ LinksOf(b.successfulJobs) = EntriesAnswered(b, "ok")
       /\ LinksOf(b.rejectedLinks) = EntriesAnswered(b, "failed")
       /\ Len(b.successfulJobs) + Len(b.rejectedLinks) = Len(b.answers)
       /\ b.requested = SubSeq(b.links, 1, Len(b.requested))
       /\ Len(b.requested) = IF Loading THEN Len(b.answers) + 1 ELSE Len(b.answers)
       /\ ~Loading => Len(b.answers) = Len(b.links)

\* a step that starts a batch starts it from a status that is not loading,
\* on the fetchable links of the input in their order, which are not none
BatchStarts ==
  ( /\ client'.status = "loading" /\ client'.batch[1].answers = <<>>
    /\ client.status # "loading" \/ client'.batch # client.batch ) =>
     /\ client.status # "loading"
     /\ client'.batch[1].links = fetchableLinks(client.linkInput, client.skippedLinks)
     /\ client'.batch[1].links # <<>>

\* while a batch is in flight its links stay and its answers come one by one
BatchGoesOn ==
  (Loading /\ client'.status = "loading") =>
     /\ client'.batch[1].links = client.batch[1].links
     /\ Len(client'.batch[1].answers) \in
          {Len(client.batch[1].answers), Len(client.batch[1].answers) + 1}

\* the step that ends a batch sets status loaded, the jobs to the entries
\* answered ok and puts every rejected entry in the skipped list
BatchEnds ==
  (Loading /\ client'.status # "loading") =>
     LET b == client'.batch[1]
     IN /\ client'.status = "loaded"
        /\ LinksOf(client'.jobs) = EntriesAnswered(b, "ok")
        /\ \A n \in 1..Len(b.rejectedLinks) :
             b.rejectedLinks[n].sourceLink \in SourceLinks(client'.skippedLinks)
        /\ \A n \in 1..Len(b.links) :
             (b.answers[n] = "ok") # (b.answers[n] = "failed")

C24_WitnessTwice ==
  /\ client.status = "loaded"
  /\ client.batch # <<>> /\ client.batch[1].links = <<LinkA, LinkA>>
  /\ LinksOf(client.jobs) = <<LinkA>>
  /\ Skipped = {LinkA}
=============================================================================
